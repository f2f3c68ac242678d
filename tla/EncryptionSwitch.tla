--------------------------- MODULE EncryptionSwitch ---------------------------
(***************************************************************************)
(* What one SET Encryption to the runtime hook promises the host, whatever *)
(* the payload does inside: RenesasInstall relies on no more than this.    *)
(*                                                                         *)
(*   - GOOD: the security policy asked for is in force;                    *)
(*   - a refusal: it is the old one, or the one asked for;                 *)
(*   - another implementation's policy is never replaced, and no other     *)
(*     command changes the policy.                                         *)
(***************************************************************************)
VARIABLES
  policy,     \* whose security table the drive uses
  asked,      \* what the current command asks for, "none" between two
  answer      \* how the last command was answered

switchVars == <<policy, asked, answer>>

Owners == {"oem", "own"}

Init ==
  /\ policy \in Owners \cup {"foreign"}
  /\ asked = "none" /\ answer = "none"

\* A command that asks for a policy, or for something else.
Ask ==
  /\ asked = "none"
  /\ asked' \in Owners \cup {"other"}
  /\ answer' = "none"
  /\ UNCHANGED policy

Switch ==
  /\ asked \in Owners /\ policy \in Owners
  /\ policy' = asked
  /\ UNCHANGED <<asked, answer>>

Good ==
  /\ asked \in {policy, "other"}
  /\ asked' = "none" /\ answer' = "good"
  /\ UNCHANGED policy

Refuse ==
  /\ asked # "none"
  /\ asked' = "none" /\ answer' = "refused"
  /\ UNCHANGED policy

\* Not this implementation's command: the OEM handler answers it.
Pass ==
  /\ asked = "other"
  /\ asked' = "none" /\ answer' = "oem"
  /\ UNCHANGED policy

Next == Ask \/ Switch \/ Good \/ Refuse \/ Pass

Spec == Init /\ [][Next]_switchVars
=============================================================================
