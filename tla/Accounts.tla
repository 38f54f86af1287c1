------------------------------ MODULE Accounts ------------------------------
(***************************************************************************)
(* Accounts and the codes that prove a phone: send-code, register, forgot  *)
(* and reset of routes.py, with the sliding windows that limit them.       *)
(*                                                                         *)
(* No handler awaits anything, so each is one step; its statements commit  *)
(* one by one.  The windows live in the memory of the process, the rest in *)
(* the database.  Codes are told apart by the id of their row: a client    *)
(* sends the value of one of them or a value that is none.  A registered   *)
(* phone is verified, so verify_phone has nothing left to do.              *)
(***************************************************************************)
EXTENDS Naturals, Sequences, SequencesExt, FiniteSetsExt

CONSTANTS
  Names, Phones,
  Addresses,           \* client IPs
  Allowed,             \* how many calls a window lets through, by its kind
  Minute, Hour,
  CodeLife,            \* 30 minutes
  MaxTime, MaxCodes, MaxPasswordsSet,   \* bounds
  MaxMishaps           \* bound on failing statements and restarts

ASSUME LimitsAssumption ==
  /\ Allowed \in [{"phone_code", "phone_code_ip", "register", "forgot"} -> Nat]
  /\ Minute \in Nat /\ Hour \in Nat /\ CodeLife \in Nat
  /\ MaxTime \in Nat /\ MaxPasswordsSet \in Nat /\ MaxMishaps \in Nat

VARIABLES
  now,
  buckets,             \* _rate_buckets
  let,                 \* since the restart: when each window let a call through
  accounts,            \* users, by name: the phone and the number of the password
  codes,               \* verification_codes, by id
  accepted,            \* the codes accepted, in order
  unmarked,            \* accepted codes whose marking failed
  mishaps

accountVars ==
  <<now, buckets, let, accounts, codes, accepted, unmarked, mishaps>>

-----------------------------------------------------------------------------
Purposes == {"register", "reset", "verify"}

Keys ==
  ({"phone_code"} \X Phones) \cup ({"phone_code_ip", "register", "forgot"} \X Addresses)

Window(key) == IF key[1] = "phone_code" THEN Minute ELSE Hour

AccountsTypeOK ==
  /\ now \in 0 .. MaxTime
  /\ buckets \in [Keys -> Seq(0 .. now)]
  /\ let \in [Keys -> Seq(0 .. now)]
  /\ DOMAIN accounts \subseteq Names
  /\ \A n \in DOMAIN accounts :
       accounts[n] \in [phone : Phones, password : 0 .. MaxPasswordsSet]
  /\ codes \in Seq([phone : Phones, purpose : Purposes, expires : Nat, used : BOOLEAN])
  /\ accepted \in Seq(DOMAIN codes)
  /\ unmarked \subseteq DOMAIN codes
  /\ mishaps \in 0 .. MaxMishaps

AccountsInit ==
  /\ now = 0
  /\ buckets = [k \in Keys |-> << >>]
  /\ let = [k \in Keys |-> << >>]
  /\ accounts = << >>
  /\ codes = << >>
  /\ accepted = << >>
  /\ unmarked = {}
  /\ mishaps = 0

-----------------------------------------------------------------------------
(* _rate_limit_window: from the left, stamps older than the window go, up  *)
(* to the first that is not, then there is room for one more or there is   *)
(* not.                                                                    *)

Recent(key) ==
  LET b == buckets[key]
      old == {n \in 0 .. Len(b) : \A i \in 1 .. n : b[i] + Window(key) < now}
  IN SubSeq(b, Max(old) + 1, Len(b))

\* Mutant: one call too many.
HasRoomForOneMore(key) == Len(Recent(key)) <= Allowed[key[1]]

HasRoom(key) == Len(Recent(key)) < Allowed[key[1]]

(* The windows a handler asks one after the other, up to the first refusal. *)
Asks(keys) ==
  LET passed == {i \in DOMAIN keys : \A j \in 1 .. i : HasRoom(keys[j])}
      asked == {i \in DOMAIN keys : \A j \in 1 .. i - 1 : HasRoom(keys[j])}
      At(I) == {keys[i] : i \in I}
  IN /\ buckets' = [k \in Keys |->
                      IF k \in At(passed) THEN Append(Recent(k), now)
                      ELSE IF k \in At(asked) THEN Recent(k) ELSE buckets[k]]
     /\ let' = [k \in Keys |-> IF k \in At(passed) THEN Append(let[k], now) ELSE let[k]]

Passes(keys) == \A i \in DOMAIN keys : HasRoom(keys[i])

Mishap == mishaps < MaxMishaps /\ mishaps' = mishaps + 1
AllWell == UNCHANGED mishaps

-----------------------------------------------------------------------------
(* save_verification_code: earlier codes are used up, then one is added.   *)
UsedUp(phone, purpose) ==
  [i \in DOMAIN codes |->
     IF codes[i].phone = phone /\ codes[i].purpose = purpose
     THEN [codes[i] EXCEPT !.used = TRUE] ELSE codes[i]]

SaveCode(phone, purpose) ==
  /\ Len(codes) < MaxCodes
  /\ LET code == [phone |-> phone, purpose |-> purpose,
                  expires |-> now + CodeLife, used |-> FALSE]
     IN \/ AllWell /\ codes' = Append(UsedUp(phone, purpose), code)
        \/ Mishap /\ codes' = UsedUp(phone, purpose)

(* Mutant: a code that was used is found again. *)
CurrentOrUsed(phone, purpose) ==
  Max({0} \cup {i \in DOMAIN codes : codes[i].phone = phone /\ codes[i].purpose = purpose})

(* get_verification_code: the newest that is not used, 0 for none. *)
Current(phone, purpose) ==
  Max({0} \cup {i \in DOMAIN codes :
                  /\ codes[i].phone = phone /\ codes[i].purpose = purpose
                  /\ ~codes[i].used})

Accepts(i, phone, purpose) ==
  /\ i = Current(phone, purpose) /\ i # 0
  /\ ~ codes[i].expires < now

(* The code did its work, then it is marked. *)
Spend(i) ==
  /\ accepted' = Append(accepted, i)
  /\ \/ /\ AllWell
        /\ codes' = [codes EXCEPT ![i].used = TRUE]
        /\ UNCHANGED unmarked
     \/ /\ Mishap
        /\ unmarked' = unmarked \cup {i}
        /\ UNCHANGED codes

AccountAt(phone) == {n \in DOMAIN accounts : accounts[n].phone = phone}

-----------------------------------------------------------------------------
SendCode(phone, purpose, ip) ==
  LET windows == <<<<"phone_code", phone>>, <<"phone_code_ip", ip>>>> IN
  /\ Asks(windows)
  /\ IF Passes(windows) THEN SaveCode(phone, purpose) ELSE UNCHANGED <<codes, mishaps>>
  /\ UNCHANGED <<now, accounts, accepted, unmarked>>

Register(name, phone, i, ip) ==
  LET windows == << <<"register", ip>> >> IN
  /\ Asks(windows)
  /\ IF /\ Passes(windows)
        /\ name \notin DOMAIN accounts /\ AccountAt(phone) = {}
        /\ Accepts(i, phone, "register")
     THEN /\ accounts' = [n \in DOMAIN accounts \cup {name} |->
                            IF n = name THEN [phone |-> phone, password |-> 0]
                            ELSE accounts[n]]
          /\ Spend(i)
     ELSE UNCHANGED <<accounts, codes, accepted, unmarked, mishaps>>
  /\ UNCHANGED now

Forgot(phone, ip) ==
  LET windows == << <<"forgot", ip>> >> IN
  /\ Asks(windows)
  /\ IF Passes(windows) /\ AccountAt(phone) # {}
     THEN SaveCode(phone, "reset") ELSE UNCHANGED <<codes, mishaps>>
  /\ UNCHANGED <<now, accounts, accepted, unmarked>>

(* reset_password; that it ends the sessions is in LoginSessions. *)
ResetPassword(phone, i) == \E n \in AccountAt(phone) :
  /\ Accepts(i, phone, "reset")
  /\ accounts[n].password < MaxPasswordsSet
  /\ accounts' = [accounts EXCEPT ![n].password = @ + 1]
  /\ Spend(i)
  /\ UNCHANGED <<now, buckets, let>>

TimePasses ==
  /\ now < MaxTime
  /\ now' = now + 1
  /\ UNCHANGED <<buckets, let, accounts, codes, accepted, unmarked, mishaps>>

Restart ==
  /\ Mishap
  /\ buckets' = [k \in Keys |-> << >>]
  /\ let' = [k \in Keys |-> << >>]
  /\ UNCHANGED <<now, accounts, codes, accepted, unmarked>>

AccountsNext ==
  \/ \E phone \in Phones, ip \in Addresses :
       \/ Forgot(phone, ip)
       \/ \E purpose \in Purposes : SendCode(phone, purpose, ip)
       \/ \E name \in Names, i \in DOMAIN codes \cup {0} : Register(name, phone, i, ip)
  \/ \E phone \in Phones, i \in DOMAIN codes : ResetPassword(phone, i)
  \/ TimePasses \/ Restart

AccountsSpec == AccountsInit /\ [][AccountsNext]_accountVars

-----------------------------------------------------------------------------
(* A code that is accepted was sent for this, to this phone, at most half  *)
(* an hour ago, and nothing was sent for it since: an older code is        *)
(* worthless, also when storing the newer one failed.  It works once,      *)
(* unless the statement that marks it failed after the account or the      *)
(* password had been stored (db.py 490, routes.py 231, 421, 432).          *)
AcceptedIsNewest ==
  [][Len(accepted') > Len(accepted) =>
       LET i == Last(accepted')
           Same(j) == codes[j].phone = codes[i].phone /\ codes[j].purpose = codes[i].purpose
           changed == {n \in DOMAIN accounts' :
                         n \notin DOMAIN accounts \/ accounts'[n] # accounts[n]}
       IN /\ \A j \in DOMAIN codes : Same(j) => j <= i
          /\ now <= codes[i].expires
          /\ i \in ToSet(accepted) => i \in unmarked
          /\ \A n \in changed :
               /\ accounts'[n].phone = codes[i].phone
               /\ codes[i].purpose = IF n \in DOMAIN accounts THEN "reset" ELSE "register"
     ]_accountVars

(* No window ever lets more calls through than it may within its length,   *)
(* wherever one puts it, as long as the process lives (routes.py 97).      *)
WindowKept ==
  \A k \in Keys : \A j \in DOMAIN let[k] :
    j > Allowed[k[1]] => let[k][j] - let[k][j - Allowed[k[1]]] > Window(k)
=============================================================================
