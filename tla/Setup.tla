-------------------------------- MODULE Setup --------------------------------
(***************************************************************************)
(* The component as it is set up and asked: what its configuration makes   *)
(* of it, from the validator to the hosted instances and through reloads   *)
(* (Startup), beside the commands it then answers (Commands).  The two     *)
(* share no variable, but for the signals, of which each has a form of its *)
(* own; Startup's names are T's here.                                      *)
(***************************************************************************)
EXTENDS Commands

CONSTANTS
  Documents, Vaults, Room, Legal, MaxReloads,   \* Startup's
  Sanitize, Width                               \* Selection's

VARIABLES phase, vault, booted, active, app, slots, hosted, last, reloads

startup == <<phase, vault, booted, active, app, slots, hosted, last, reloads>>

T == INSTANCE Startup

ASSUME InstancesAreRead == T!DocumentsAreRead
ASSUME GenerationsTell == T!DigestTells

\* What the validator accepts is hosted (Startup).
AcceptedIsHosted == T!AcceptedIsHosted

\* After reloads the slots are a restart's, and what changed is what was reported
\* (Startup).
ReloadIsRestart == T!ReloadIsRestart /\ T!ChangedIsReported
=============================================================================
