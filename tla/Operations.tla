----------------------------- MODULE Operations -----------------------------
(***************************************************************************)
(* The operator's procedures beside the running service: the retention of  *)
(* the audit trail (AuditTrail), the cutover of a 1.x database (Cutover)   *)
(* and the replacement of credentials (Credentials).  They share no state  *)
(* in the code: a purge touches the audit table only, the cutover runs     *)
(* while the issuers are stopped or not yet started, and the settings are  *)
(* read at a restart.  A behaviour follows one of them, whichever was      *)
(* chosen at its start.                                                    *)
(***************************************************************************)
EXTENDS AuditTrail, Cutover, Credentials

VARIABLE procedure  \* the procedure a behaviour follows

vars == <<procedure, trailVars, cutoverVars, credentialsVars>>

TypeOK ==
    /\ procedure \in {"audit", "cutover", "credentials"}
    /\ TrailTypeOK
    /\ CutoverTypeOK
    /\ CredentialsTypeOK

(* Where the other procedures stand while one of them is followed. *)
CutoverIdle ==
    /\ user = [u \in Users |-> [super |-> FALSE, flag |-> FALSE, active |-> TRUE, gen |-> 1]]
    /\ ~ schema.transactional
CredentialsIdle == replacing = "access" /\ config.label = Derived

Init ==
    /\ procedure \in {"audit", "cutover", "credentials"}
    /\ TrailInit /\ CutoverInit /\ CredentialsInit
    /\ procedure # "cutover" => CutoverIdle
    /\ procedure # "credentials" => CredentialsIdle

AuditStep ==
    procedure = "audit" /\ TrailNext /\ UNCHANGED <<procedure, cutoverVars, credentialsVars>>
CutoverStep ==
    procedure = "cutover" /\ CutoverNext /\ UNCHANGED <<procedure, trailVars, credentialsVars>>
CredentialsStep ==
    procedure = "credentials" /\ CredentialsNext /\ UNCHANGED <<procedure, trailVars, cutoverVars>>

Next == AuditStep \/ CutoverStep \/ CredentialsStep

Spec == Init /\ [][Next]_vars
=============================================================================
