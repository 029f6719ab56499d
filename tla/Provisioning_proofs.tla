------------------------- MODULE Provisioning_proofs -------------------------
(***************************************************************************)
(* For any users, forms and number of power cuts: USER.txt never speaks of *)
(* an account that the server has not got, since only SignUp sets USER,    *)
(* with the account, and no step removes one (FlagSound); and each stage   *)
(* of setup() finds what it relies on (StagesHold).                        *)
(***************************************************************************)
EXTENDS Provisioning, TLAPS

(* Every step but SignUp leaves USER.txt and the server's accounts alone.    *)
LEMMA FlagKept ==
    Next => SignUp \/ UNCHANGED <<USER, accounts>>
<1> SUFFICES ASSUME Next PROVE SignUp \/ UNCHANGED <<USER, accounts>>
  OBVIOUS
<1>1. ASSUME OpenPortal PROVE UNCHANGED <<USER, accounts>>
  BY <1>1 DEF OpenPortal, stored, world
<1>2. CASE WiFi_Configuration \/ Wifi_Connection
  BY <1>1, <1>2 DEF WiFi_Configuration, Wifi_Connection, stored, world
<1>3. CASE Firebase_Set_Up \/ Firebase_First_Push \/ FACP_Setup \/ Reset
  BY <1>3 DEF Firebase_Set_Up, Firebase_First_Push, FACP_Setup, Reset,
              stored, world
<1>4. CASE Installer
  BY <1>4 DEF Installer, Submit, CutSubmit, world
<1>5. CASE PowerCut \/ Router
  BY <1>5 DEF PowerCut, Router, stored
<1> QED BY <1>2, <1>3, <1>4, <1>5 DEF Next, Setup

(* Firebase_Set_Up may skip signUp on the word of USER.txt: even with lost   *)
(* answers and power cuts, some account was created before it was written.   *)
(* (Whose account it is, it does not say: see NewUserWorks.)                 *)
THEOREM FlagSound == Spec => []FlagOfAccount
<1>1. Init => FlagOfAccount
  BY DEF Init, FlagOfAccount
<1>2. FlagOfAccount /\ [Next]_vars => FlagOfAccount'
  <2> SUFFICES ASSUME FlagOfAccount, [Next]_vars PROVE FlagOfAccount'
    OBVIOUS
  <2>1. CASE SignUp
    <3>1. CASE UNCHANGED <<USER, accounts>>
      BY <3>1 DEF FlagOfAccount
    <3>2. CASE accounts' = accounts \cup {auth.user}
      BY <3>2 DEF FlagOfAccount
    <3> QED BY <2>1, <3>1, <3>2 DEF SignUp
  <2>2. CASE UNCHANGED <<USER, accounts>>
    BY <2>2 DEF FlagOfAccount
  <2>3. CASE UNCHANGED vars
    BY <2>2, <2>3 DEF vars, stored, world
  <2> QED BY FlagKept, <2>1, <2>2, <2>3
<1> QED BY <1>1, <1>2, PTL DEF Spec

-----------------------------------------------------------------------------
(* The stages of setup().                                                    *)

\* StagesSound with what it rests on: WiFi_Incorrect stands for not having joined.
StagesInv ==
    /\ StagesSound
    /\ ~Joined => WiFi_Incorrect

\* A step that stays within the stages before the WiFi is joined, or within those from
\* there to the first write.
LEMMA StageKept ==
    ASSUME StagesInv, Joined' <=> Joined, WiFi_Incorrect' = WiFi_Incorrect,
           pc' = "portal" => serving', pc' \notin {"panel", "running"}
    PROVE  StagesInv'
BY DEF StagesInv, StagesSound, Joined

\* A step that the stage of setup() does not take part in.
LEMMA StageAside ==
    ASSUME StagesInv, UNCHANGED <<pc, serving, WiFi_Incorrect, auth, accounts>>
    PROVE  StagesInv'
BY DEF StagesInv, StagesSound, Joined

\* A reset starts over.
LEMMA StageRestarted == Restarted => StagesInv'
BY DEF Restarted, StagesInv, StagesSound, Joined

LEMMA StagesNext == StagesInv /\ [Next]_vars => StagesInv'
<1> SUFFICES ASSUME StagesInv, [Next]_vars PROVE StagesInv'
  OBVIOUS
<1> USE DEF stored, ram, world
<1>1. CASE WiFi_Configuration
  BY <1>1, StageKept DEF WiFi_Configuration, WiFi_Status, OpenPortal, Joined
<1>2. CASE Wifi_Connection
  <2>1. CASE OpenPortal
    BY <1>2, <2>1, StageKept DEF Wifi_Connection, OpenPortal, Joined
  <2>2. CASE WiFi_Incorrect' = FALSE /\ pc' = "firebase"
    BY <2>2 DEF StagesInv, StagesSound, Joined
  <2> QED BY <1>2, <2>1, <2>2 DEF Wifi_Connection
<1>3. CASE Firebase_Set_Up
  BY <1>3, StageKept DEF Firebase_Set_Up, Joined
<1>4. CASE SignUp
  BY <1>4, StageKept DEF SignUp, Joined
<1>5. CASE Firebase_First_Push
  <2>1. /\ pc = "push" /\ pc' \in {"panel", "firebase"}
        /\ UNCHANGED <<WiFi_Incorrect, auth, accounts>>
        /\ pc' = "panel" => auth.user \in accounts /\ auth.psw = "right"
    BY <1>5 DEF Firebase_First_Push
  <2> QED BY <2>1 DEF StagesInv, StagesSound, Joined
<1>6. CASE FACP_Setup
  BY <1>6 DEF FACP_Setup, StagesInv, StagesSound, Joined
<1>7. CASE Reset
  BY <1>7, StageRestarted DEF Reset
<1>8. CASE Installer
  <2>1. ASSUME NEW form \in Forms, Submit(form) PROVE StagesInv'
    BY <2>1, StageAside DEF Submit
  <2>2. ASSUME NEW form \in Forms, NEW n \in 0..4, CutSubmit(form, n) PROVE StagesInv'
    BY <2>2, StageRestarted DEF CutSubmit
  <2> QED BY <1>8, <2>1, <2>2 DEF Installer
<1>9. CASE PowerCut
  BY <1>9, StageRestarted DEF PowerCut
<1>10. CASE Router
  BY <1>10, StageAside DEF Router
<1>11. CASE UNCHANGED vars
  BY <1>11, StageAside DEF vars
<1> QED BY <1>1, <1>2, <1>3, <1>4, <1>5, <1>6, <1>7, <1>8, <1>9, <1>10, <1>11
        DEF Next, Setup

\* With any users, forms and power cuts, setup() never sits in an access point that
\* cannot be left, and never goes on to the fire panel for a user the server rejects.
THEOREM StagesHold == Spec => []StagesSound
<1>1. Init => StagesInv
  BY DEF Init, StagesInv, StagesSound, Joined
<1>2. StagesInv => StagesSound
  BY DEF StagesInv
<1> QED BY <1>1, <1>2, StagesNext, PTL DEF Spec

=============================================================================
