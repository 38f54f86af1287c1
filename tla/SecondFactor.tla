---------------------------- MODULE SecondFactor ----------------------------
(***************************************************************************)
(* The second factor of one account: /auth/2fa/setup, enable and disable.  *)
(* get_current_user reads the row of the account on a worker thread; the   *)
(* handler runs later, on the event loop, with the row as it was then.     *)
(* Other handlers and other reads come in between.                         *)
(***************************************************************************)
EXTENDS Naturals

CONSTANTS
  Secrets,
  TotpCalls,       \* the calls that can be under way together
  NoSecret

Idle == "idle"

ASSUME SecretsAssumption ==
  NoSecret # Idle /\ {NoSecret, Idle} \cap Secrets = {}

VARIABLES
  totp,            \* users.totp_secret
  row,             \* what a call under way read of it
  outdated         \* the calls whose read is older than the secret

factorVars == <<totp, row, outdated>>

FactorTypeOK ==
  /\ totp \in Secrets \cup {NoSecret}
  /\ row \in [TotpCalls -> Secrets \cup {NoSecret, Idle}]
  /\ outdated \subseteq {c \in TotpCalls : row[c] # Idle}

FactorInit ==
  /\ totp = NoSecret
  /\ row = [c \in TotpCalls |-> Idle]
  /\ outdated = {}

ReadRow(c) ==
  /\ row[c] = Idle
  /\ row' = [row EXCEPT ![c] = totp]
  /\ UNCHANGED <<totp, outdated>>

(* set_totp_secret, and the call ends. *)
Stores(c, s) ==
  /\ totp' = s
  /\ row' = [row EXCEPT ![c] = Idle]
  /\ outdated' = IF s = totp THEN outdated \ {c}
                 ELSE {d \in TotpCalls : row'[d] # Idle}

(* Mutant: a secret is stored though there is one. *)
EnableAlways(c, s) ==
  /\ row[c] # Idle
  /\ Stores(c, s)

(* The secret comes from the client, which shows a code of it. *)
Enable(c, s) ==
  /\ row[c] = NoSecret
  /\ Stores(c, s)

(* The code is one of the secret that was read. *)
Disable(c) ==
  /\ row[c] \in Secrets
  /\ Stores(c, NoSecret)

(* setup, whose secret is not kept, or a call that is refused: a code that *)
(* is wrong, a secret where there must be none or none where one must be.  *)
Refuse(c) ==
  /\ row[c] # Idle
  /\ row' = [row EXCEPT ![c] = Idle]
  /\ outdated' = outdated \ {c}
  /\ UNCHANGED totp

FactorNext ==
  \E c \in TotpCalls :
    \/ ReadRow(c) \/ Disable(c) \/ Refuse(c)
    \/ \E s \in Secrets : Enable(c, s)

FactorSpec == FactorInit /\ [][FactorNext]_factorVars

-----------------------------------------------------------------------------
(* A second factor that is on is taken away only by who shows a code of    *)
(* it, and never exchanged for another, save by a call that had read the   *)
(* account before it was on (deps.py 28, routes.py 457, 471).              *)
SecondFactorHeld ==
  [][\A c \in TotpCalls :
       totp \in Secrets /\ totp' # totp /\ row'[c] # row[c] =>
         \/ c \in outdated
         \/ row[c] = totp /\ totp' = NoSecret]_factorVars
=============================================================================
