-------------------------- MODULE OledRefresh_proofs --------------------------
(***************************************************************************)
(* A text of task 4 is never lost, whatever the texts and states are.  The *)
(* invariant follows the text from messageb, while the lock is held, to    *)
(* the display object, the frame buffer and the screen.  It says nothing   *)
(* while loop() shows its error screen, which only ends with a reset.      *)
(***************************************************************************)
EXTENDS OledRefresh, TLAPS

\* Task 2 has drawn what messageb holds.
Drawn == OLED_Display.text = messageb /\ frame.text = messageb

\* Task 2 has sent it, or nothing was handed over since it did.
Sent == Drawn /\ screen.text = messageb

Inv ==
    lp = "serial" =>
        /\ pc2 \in {"rest", "draw", "send"}
        /\ pc2 = "draw" => Drawn
        /\ pc2 = "send" => Sent
        /\ pc2 = "rest" /\ ~refresh_oled => Sent

-----------------------------------------------------------------------------

(* The screen of setup() ends without a text, and none is asked for.         *)
LEMMA InitInv == Init => Inv
<1> SUFFICES ASSUME Init PROVE Inv
  OBVIOUS
<1>1. pc2 = "rest" /\ messageb = ""
  BY DEF Init
<1>2. OLED_Display.text = "" /\ frame.text = "" /\ screen.text = ""
  BY DEF Init, Picture
<1> QED BY <1>1, <1>2 DEF Inv, Sent, Drawn

(* Between two yields of task 2 the text moves one stage on.                 *)
LEMMA Task2Inv == Inv /\ Task2 => Inv'
<1> SUFFICES ASSUME Inv, Task2, lp' = "serial" PROVE Inv'
  BY DEF Inv
<1>1. CASE Draw
  <2>1. pc2' = "draw" /\ lp = "serial" /\ UNCHANGED <<messageb, refresh_oled>>
    BY <1>1 DEF Draw, memory
  <2>2. TakenOver.text = messageb
    <3>1. CASE refresh_oled
      BY <3>1 DEF TakenOver, Picture
    <3>2. CASE ~refresh_oled
      BY <1>1, <2>1, <3>2 DEF Draw, Inv, Sent, Drawn, TakenOver, Picture
    <3> QED BY <3>1, <3>2
  <2>3. Drawn'
    BY <1>1, <2>1, <2>2 DEF Draw, Drawn
  <2> QED BY <2>1, <2>3 DEF Inv
<1>2. CASE Send
  BY <1>2 DEF Send, memory, Inv, Sent, Drawn
<1>3. CASE Release
  BY <1>3 DEF Release, Inv, Sent, Drawn
<1> QED BY <1>1, <1>2, <1>3 DEF Task2

(* Outside task 2 a new text comes with a request, and the error screen      *)
(* leaves the "serial" phase.                                                *)
LEMMA OthersInv ==
    Inv /\ (\/ \E t \in Texts : SetText(t)
            \/ SetStatus \/ StartError \/ ErrorScreen) => Inv'
<1> SUFFICES ASSUME Inv,
                    \/ \E t \in Texts : SetText(t)
                    \/ SetStatus \/ StartError \/ ErrorScreen
             PROVE  Inv'
  OBVIOUS
<1>1. CASE \E t \in Texts : SetText(t)
  BY <1>1 DEF SetText, Inv, Sent, Drawn
<1>2. CASE SetStatus
  BY <1>2 DEF SetStatus, Inv, Sent, Drawn
<1>3. CASE StartError
  BY <1>3 DEF StartError, Inv
<1>4. CASE DrawError \/ SendError
  BY <1>4 DEF DrawError, SendError, Inv
<1>5. CASE Reset
  BY <1>5 DEF Reset, Inv, Sent, Drawn, Picture
<1> QED BY <1>1, <1>2, <1>3, <1>4, <1>5 DEF ErrorScreen

(* Print_OLED may clear refresh_oled after display() has yielded, because    *)
(* Trouble_OLED and Fire_OLED hand their text over under OLEDMutex: unless   *)
(* loop() is in its last error screen, no text is dropped.                   *)
THEOREM TextKept == Spec => []NothingLost
<1>1. Inv /\ [Next]_vars => Inv'
  <2>1. Inv /\ UNCHANGED vars => Inv'
    BY DEF vars, memory, Inv, Sent, Drawn
  <2> QED BY <2>1, Task2Inv, OthersInv DEF Next
<1>2. Inv => NothingLost
  BY DEF Inv, Sent, Drawn, NothingLost
<1> QED BY InitInv, <1>1, <1>2, PTL DEF Spec

=============================================================================
