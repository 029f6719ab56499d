----------------------------- MODULE OledRefresh -----------------------------
(***************************************************************************)
(* The display: task 2 (loop2 of main.cpp) redraws it under OLEDMutex,     *)
(* task 4 hands it a new text through messageb and refresh_oled, also      *)
(* under OLEDMutex, and loop() shows its last error screen without it      *)
(* (Display_OLED.h, Coop_Serial_System.h).                                 *)
(*                                                                         *)
(* Drawing fills the frame buffer in one go; display.display() then yields *)
(* before and after it sends the buffer to the screen, and one action is   *)
(* what runs between two yields.  Task 4 never yields with the lock, so    *)
(* task 2 alone is seen holding it.                                        *)
(* Abstracted: layout, logos and scrolling; a picture is a text and the    *)
(* status (WiFi_Con, CAII) shown beside it.                                *)
(***************************************************************************)
EXTENDS Naturals

CONSTANTS
    Texts,      \* the texts that task 4 displays
    States      \* the values of CAII

ASSUME TextsAssumption == {"", "error"} \cap Texts = {}
ASSUME StatesAssumption == "NORMAL" \in States

VARIABLES
    messageb,       \* the text task 4 wants displayed
    refresh_oled,   \* task 2 has not taken it over yet
    status,         \* WiFi_Con and CAII
    OLED_Display,   \* what the display object draws: a picture
    frame,          \* the frame buffer: a picture
    screen,         \* what can be seen: a picture
    pc2,            \* task 2: resting, or with the lock drawing or sending
    lp              \* loop(): anywhere else, or showing its error screen

memory == <<messageb, refresh_oled, status>>
vars == <<memory, OLED_Display, frame, screen, pc2, lp>>

Status  == [WiFi_Con : BOOLEAN, CAII : States]
Picture(t, s) == [text |-> t, status |-> s]
AllTexts == Texts \cup {"", "error"}

StartStatus == [WiFi_Con |-> TRUE, CAII |-> "NORMAL"]

\* setup() has shown its last screen, which OLED_show leaves without text.
Init ==
    /\ messageb = "" /\ refresh_oled = FALSE
    /\ status = StartStatus
    /\ OLED_Display = Picture("", StartStatus)
    /\ frame = Picture("", StartStatus) /\ screen = Picture("", StartStatus)
    /\ pc2 = "rest" /\ lp = "serial"

-----------------------------------------------------------------------------
(* Task 2: loop2.                                                            *)

\* Mutant: the status is taken over with a new text only.
TakenOverOnRefresh ==
    IF refresh_oled THEN Picture(messageb, status) ELSE OLED_Display

\* Screen_Loop_Refresh.
TakenOver == Picture(IF refresh_oled THEN messageb ELSE OLED_Display.text, status)

\* With the lock obtained: Print_OLED up to the first yield of display().
Draw ==
    /\ pc2 = "rest"
    /\ OLED_Display' = TakenOver
    /\ frame' = TakenOver
    /\ pc2' = "draw"
    /\ UNCHANGED <<memory, screen, lp>>

Send ==
    /\ pc2 = "draw"
    /\ screen' = frame
    /\ pc2' = "send"
    /\ UNCHANGED <<memory, OLED_Display, frame, lp>>

\* display() returns; the request is taken as done and the lock released.
Release ==
    /\ pc2 = "send"
    /\ refresh_oled' = FALSE
    /\ pc2' = "rest"
    /\ UNCHANGED <<messageb, status, OLED_Display, frame, screen, lp>>

-----------------------------------------------------------------------------
(* Task 4: Trouble_OLED and Fire_OLED.                                       *)

\* Mutant: the text is set without waiting for the lock.
SetTextUnlocked(t) ==
    /\ refresh_oled' = TRUE
    /\ messageb' = t
    /\ UNCHANGED <<status, OLED_Display, frame, screen, pc2, lp>>

\* With the lock obtained: a text is handed over, the lock released.
SetText(t) ==
    /\ pc2 = "rest"
    /\ refresh_oled' = TRUE
    /\ messageb' = t
    /\ UNCHANGED <<status, OLED_Display, frame, screen, pc2, lp>>

-----------------------------------------------------------------------------
(* loop() and task 1.                                                        *)

\* SerialEvent, Fix_Firebase and task 1 set CAII and WiFi_Con.
SetStatus ==
    /\ status' \in Status
    /\ UNCHANGED <<messageb, refresh_oled, OLED_Display, frame, screen, pc2, lp>>

\* Fix_Firebase gives up: OLED_Firebase_BAD sets the text of the display object.
StartError ==
    /\ lp = "serial"
    /\ OLED_Display' = Picture("error", [WiFi_Con |-> FALSE, CAII |-> "NORMAL"])
    /\ lp' = "errorDraw"
    /\ UNCHANGED <<memory, frame, screen, pc2>>

\* One Screen_Set() of OLED_show, up to the first yield of display().
DrawError ==
    /\ lp = "errorDraw"
    /\ frame' = OLED_Display
    /\ lp' = "errorSend"
    /\ UNCHANGED <<memory, OLED_Display, screen, pc2>>

SendError ==
    /\ lp = "errorSend"
    /\ screen' = frame
    /\ lp' \in {"errorDraw", "errorEnd"}
    /\ UNCHANGED <<memory, OLED_Display, frame, pc2>>

\* OLED_show clears the text, and ESP.reset() and setup() follow.
Reset ==
    /\ lp = "errorEnd"
    /\ messageb' = "" /\ refresh_oled' = FALSE
    /\ status' = StartStatus
    /\ OLED_Display' = Picture("", StartStatus)
    /\ frame' = Picture("", StartStatus) /\ screen' = Picture("", StartStatus)
    /\ pc2' = "rest" /\ lp' = "serial"

-----------------------------------------------------------------------------

Task2 == Draw \/ Send \/ Release

ErrorScreen == DrawError \/ SendError \/ Reset

Next == \/ Task2
        \/ \E t \in Texts : SetText(t)
        \/ SetStatus \/ StartError \/ ErrorScreen

Spec == Init /\ [][Next]_vars

\* Task 2 runs again after each SCREEN_REFRESH; loop() ends its error screen.
FairSpec == Spec /\ WF_vars(Task2) /\ WF_vars(ErrorScreen)

-----------------------------------------------------------------------------
(* Properties.                                                               *)

\* A text of task 4 is never lost: unless loop() shows its error, either task 2
\* has still to take messageb over, or it is what the screen shows.
NothingLost ==
    lp = "serial" /\ pc2 = "rest" /\ ~refresh_oled =>
        screen.text = messageb /\ OLED_Display.text = messageb

\* When the text and the status stay, the screen shows them in the end.
ScreenSettles ==
    \A t \in AllTexts, s \in Status :
        <>[](lp = "serial" /\ messageb = t /\ status = s) =>
            <>[](screen = Picture(t, s))

=============================================================================
