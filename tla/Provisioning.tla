----------------------------- MODULE Provisioning -----------------------------
(***************************************************************************)
(* From power-on to the end of setup() (main.cpp): joining the WiFi, the   *)
(* access point with its web form, the configuration files in SPIFFS, the  *)
(* Firebase account and its first write (WiFi_Config.h, Firebase_Comm.h).  *)
(*                                                                         *)
(* The web form writes one file after the other, so a power cut can come   *)
(* in between.  Its server is never stopped: once the access point has     *)
(* been opened, the form can also be sent through the joined network.      *)
(* Abstracted: a stored word is too short to pass, of some length but not  *)
(* accepted, or the right one; the account's password is the right one.    *)
(***************************************************************************)
EXTENDS Naturals, Sequences, SequencesExt

CONSTANTS
    Users,      \* the e-mail addresses that can be typed in as USERNAME
    Words,      \* what can be typed in for the other files
    MaxCuts     \* bound: power cuts

ASSUME UsersAssumption == "" \notin Users
ASSUME WordsAssumption == Words \subseteq {"", "wrong", "right"}
ASSUME CutsAssumption == MaxCuts \in Nat

VARIABLES
    files,          \* the configuration files in SPIFFS
    USER,           \* USER.txt holds "User Created"
    all_set,        \* a complete form has arrived
    WiFi_Incorrect, \* the WiFi has not been joined since the start
    serving,        \* the web server has been started since the start
    auth,           \* the user name and password given to Firebase
    pc,             \* what setup() does
    accounts,       \* the users that have an account on the server
    router,         \* the network of the right SSID is up and online
    cuts            \* power cuts so far

stored == <<files, USER>>
ram == <<all_set, WiFi_Incorrect, serving, auth>>
world == <<accounts, router, cuts>>
vars == <<stored, ram, pc, world>>

Names == <<"SSID", "PSW", "USERNAME", "USER_PSW", "FACILITY">>

Forms == [SSID : Words, PSW : Words, USERNAME : Users \cup {""},
          USER_PSW : Words, FACILITY : Words \ {"wrong"}]

NoForm == [SSID |-> "", PSW |-> "", USERNAME |-> "", USER_PSW |-> "", FACILITY |-> ""]
NoAuth == [user |-> "", psw |-> ""]

Complete(form) == \A n \in DOMAIN form : form[n] # ""
RightWiFi == files.SSID = "right" /\ files.PSW = "right"
Joined == pc \in {"firebase", "signUp", "push", "panel", "running"}

\* A new chip, and users that may already have an account.
Init ==
    /\ files = NoForm /\ USER = FALSE
    /\ all_set = FALSE /\ WiFi_Incorrect = TRUE /\ serving = FALSE
    /\ auth = NoAuth
    /\ pc = "start"
    /\ accounts \in SUBSET Users /\ router \in BOOLEAN /\ cuts = 0

\* What a reset or a power cut makes of the variables in RAM.
Restarted ==
    /\ all_set' = FALSE /\ WiFi_Incorrect' = TRUE /\ serving' = FALSE
    /\ auth' = NoAuth
    /\ pc' = "start"

-----------------------------------------------------------------------------
(* Joining the WiFi: WiFi_Configuration, and setup() until it succeeds.      *)

\* Wifi_AP_setup.
OpenPortal ==
    /\ serving' = TRUE /\ all_set' = FALSE
    /\ pc' = "portal"
    /\ UNCHANGED <<stored, WiFi_Incorrect, auth, world>>

\* Mutant: waits for a WiFi that has been joined.
WiFi_StatusJoined == all_set /\ ~WiFi_Incorrect

WiFi_Status == all_set /\ WiFi_Incorrect

\* WiFi_Configuration reads the files and tries the network they name.
WiFi_Configuration ==
    /\ pc = "start" \/ (pc = "portal" /\ WiFi_Status)
    /\ IF files.SSID # "" /\ files.PSW # ""
         THEN pc' = "joining" /\ UNCHANGED <<stored, ram, world>>
         ELSE OpenPortal

\* Mutant: a join counts as made before it has succeeded.
JoinCounted ==
    /\ pc = "joining"
    /\ WiFi_Incorrect' = FALSE
    /\ IF RightWiFi /\ router
         THEN /\ pc' = "firebase"
              /\ UNCHANGED <<stored, all_set, serving, auth, world>>
         ELSE /\ serving' = TRUE /\ all_set' = FALSE
              /\ pc' = "portal"
              /\ UNCHANGED <<stored, auth, world>>

\* Wifi_Connection is answered or runs out of tries.
Wifi_Connection ==
    /\ pc = "joining"
    /\ IF RightWiFi /\ router
         THEN /\ WiFi_Incorrect' = FALSE
              /\ pc' = "firebase"
              /\ UNCHANGED <<stored, all_set, serving, auth, world>>
         ELSE OpenPortal

-----------------------------------------------------------------------------
(* The Firebase account: Firebase_Set_Up and Firebase_First_Push, which      *)
(* setup() repeats until the first write succeeds.                           *)

Firebase_Set_Up ==
    /\ pc = "firebase"
    /\ auth' = [user |-> files.USERNAME, psw |-> files.USER_PSW]
    /\ pc' = IF USER THEN "push" ELSE "signUp"
    /\ UNCHANGED <<stored, all_set, WiFi_Incorrect, serving, world>>

CanRegister ==
    router /\ auth.user \in Users \ accounts /\ auth.psw = "right"

\* Mutant: USER.txt is written before the account is asked for.
SignUpFlagFirst ==
    /\ pc = "signUp"
    /\ USER' = TRUE
    /\ accounts' \in {accounts, IF CanRegister THEN accounts \cup {auth.user} ELSE accounts}
    /\ pc' = "push"
    /\ UNCHANGED <<files, ram, router, cuts>>

\* signUp is refused, carried out, or carried out with its answer lost.
SignUp ==
    /\ pc = "signUp"
    /\ \/ UNCHANGED <<USER, accounts>>
       \/ /\ CanRegister
          /\ accounts' = accounts \cup {auth.user}
          /\ USER' \in {USER, TRUE}
    /\ pc' = "push"
    /\ UNCHANGED <<files, ram, router, cuts>>

Firebase_First_Push ==
    /\ pc = "push"
    /\ pc' = IF router /\ auth.user \in accounts /\ auth.psw = "right"
               THEN "panel" ELSE "firebase"
    /\ UNCHANGED <<stored, ram, world>>

\* The fire panel answers, and the tasks start.
FACP_Setup ==
    /\ pc = "panel"
    /\ pc' = "running"
    /\ UNCHANGED <<stored, ram, world>>

\* A running device resets itself: Fix_Firebase after FBASE_TRIES reads of Enable that
\* failed, be the network down or Enable absent or 0, Wifi_Con_Reset and loop1.
Reset ==
    /\ pc = "running"
    /\ Restarted
    /\ UNCHANGED <<stored, world>>

-----------------------------------------------------------------------------
(* The installer, the power supply and the router.                           *)

CanSend == serving /\ (pc = "portal" \/ (Joined /\ router))

\* The form's handler writes what it is given, and accepts complete forms.
Submit(form) ==
    /\ CanSend
    /\ files' = form
    /\ all_set' = (all_set \/ Complete(form))
    /\ UNCHANGED <<USER, WiFi_Incorrect, serving, auth, pc, world>>

PowerCut ==
    /\ cuts < MaxCuts /\ cuts' = cuts + 1
    /\ Restarted
    /\ UNCHANGED <<stored, accounts, router>>

\* The power fails when the handler has written n of the five files, and has
\* emptied the next one or not.
CutSubmit(form, n) ==
    /\ CanSend
    /\ cuts < MaxCuts /\ cuts' = cuts + 1
    /\ \E next \in {"", files[Names[n + 1]]} :
         files' = [f \in DOMAIN files |->
                     CASE f \in ToSet(SubSeq(Names, 1, n)) -> form[f]
                       [] f = Names[n + 1]                 -> next
                       [] OTHER                            -> files[f]]
    /\ Restarted
    /\ UNCHANGED <<USER, accounts, router>>

Router ==
    /\ router' = ~router
    /\ UNCHANGED <<stored, ram, pc, accounts, cuts>>

-----------------------------------------------------------------------------

Setup ==
    \/ WiFi_Configuration \/ Wifi_Connection
    \/ Firebase_Set_Up \/ SignUp \/ Firebase_First_Push \/ FACP_Setup

Installer ==
    \/ \E form \in Forms : Submit(form)
    \/ \E form \in Forms, n \in 0..4 : CutSubmit(form, n)

Next == Setup \/ Reset \/ Installer \/ PowerCut \/ Router

Spec == Init /\ [][Next]_vars

\* setup() never waits; a sign-up that can succeed does so in the end.
FairSpec ==
    /\ Spec
    /\ WF_vars(Setup)
    /\ SF_vars(SignUp /\ accounts' # accounts)

-----------------------------------------------------------------------------
(* Properties.                                                               *)

\* USER.txt speaks of an account that the server has, whatever answers are
\* lost and wherever the power fails; Firebase_Set_Up skips signUp on its word.
FlagOfAccount == USER => accounts # {}

\* What each stage of setup() relies on, whatever forms, power cuts and outages came
\* before.  The access point can be left: its form can be sent, and WiFi_Status will
\* act on it.  A device that goes on to the fire panel, and polls it, is known to the
\* server, also when its files have been changed or its sign-up was refused since.
StagesSound ==
    /\ pc = "portal" => serving /\ WiFi_Incorrect
    /\ Joined => ~WiFi_Incorrect
    /\ pc \in {"panel", "running"} => auth.user \in accounts /\ auth.psw = "right"

\* The stored configuration is complete, and u's.
RightForm(u) == RightWiFi /\ files.USERNAME = u /\ files.USER_PSW = "right"

\* Once the network stays up, the files stay right for a user that has an
\* account or can get one, and the access point is not left waiting for a form,
\* setup() ends, and does so again after each reset of the chip, whatever account,
\* forms and outages were there before.
ConfiguredRuns ==
    \A u \in Users :
        /\ <>[](router /\ RightForm(u) /\ (u \in accounts \/ ~USER))
        /\ []<>(pc # "portal" \/ all_set)
        => []<>(pc = "running")

\* "Datos Actualizados. Ingresa con usuario y clave": a user entered for good, on
\* a device that has joined the network and set up Firebase for it, can log in.
NewUserWorks ==
    \A u \in Users :
        <>[](Joined /\ router /\ RightForm(u) /\ auth.user = u) => <>(u \in accounts)

=============================================================================
