--------------------------- MODULE AccountsProofs ---------------------------
(***************************************************************************)
(* What TLAPS proves about Accounts, SecondFactor and LoginSessions, for   *)
(* any phones, addresses, limits and secrets, any browsers and failing     *)
(* statements, any number of codes and any number of calls under way       *)
(* together.                                                               *)
(***************************************************************************)
EXTENDS Accounts, SecondFactor, LoginSessions, SequenceTheorems, SequenceFacts

-----------------------------------------------------------------------------
(* The windows.                                                            *)

(* At time t the stamps in b are the last ones of l, all the calls that    *)
(* the window k let through; those before are too old to count.            *)
Remembers(k, b, l, t) ==
  LET dropped == Len(l) - Len(b)
  IN /\ Len(b) <= Len(l) /\ Len(b) <= Allowed[k[1]]
     /\ \A i \in DOMAIN l : l[i] <= t
     /\ \A i \in DOMAIN b : b[i] = l[dropped + i]
     /\ \A i \in 1 .. dropped : l[i] + Window(k) < t

(* What WindowKept says of one window.                                     *)
Kept(k, l) ==
  \A j \in DOMAIN l : j > Allowed[k[1]] => l[j] - l[j - Allowed[k[1]]] > Window(k)

WindowsTyped ==
  /\ now \in Nat
  /\ buckets \in [Keys -> Seq(Nat)]
  /\ let \in [Keys -> Seq(Nat)]

WindowsInv ==
  /\ WindowsTyped
  /\ \A k \in Keys : Remembers(k, buckets[k], let[k], now) /\ Kept(k, let[k])

LEMMA WindowNumbers ==
  ASSUME NEW k \in Keys
  PROVE  Allowed[k[1]] \in Nat /\ Window(k) \in Nat
<1>1. k[1] \in {"phone_code", "phone_code_ip", "register", "forgot"}
  BY DEF Keys
<1>2. QED
  BY <1>1, LimitsAssumption DEF Window

(* Old stamps go from the left: what is left is the end of the bucket.     *)
LEMMA RecentIsEnd ==
  ASSUME WindowsTyped, NEW k \in Keys
  PROVE  \E m \in 0 .. Len(buckets[k]) :
           /\ Recent(k) = SubSeq(buckets[k], m + 1, Len(buckets[k]))
           /\ \A i \in 1 .. m : buckets[k][i] + Window(k) < now
<1> DEFINE b == buckets[k]
           old == {n \in 0 .. Len(b) : \A i \in 1 .. n : b[i] + Window(k) < now}
<1>1. b \in Seq(Nat) /\ Len(b) \in Nat
  BY DEF WindowsTyped
<1>2. 0 \in old
  BY <1>1
<1>3. old \in SUBSET (0 .. Len(b))
  OBVIOUS
<1>4. \E m \in old : \A n \in old : n <= m
  <2> HIDE DEF old, b
  <2> DEFINE l == Len(b)
  <2>1. l \in Nat /\ old \in SUBSET (0 .. l) /\ old # {}
    BY <1>1, <1>2, <1>3
  <2> HIDE DEF l
  <2>2. QED
    BY <2>1, GreatestNumber
<1>5. Max(old) \in old
  <2>1. \E m \in old : \A n \in old : m >= n
    BY <1>1, <1>3, <1>4
  <2> HIDE DEF old
  <2>2. QED
    BY <2>1 DEF Max
<1>6. Recent(k) = SubSeq(b, Max(old) + 1, Len(b))
  BY DEF Recent
<1>7. QED
  BY <1>5, <1>6

LEMMA RecentRemembers ==
  ASSUME WindowsTyped, NEW k \in Keys, Remembers(k, buckets[k], let[k], now)
  PROVE  Recent(k) \in Seq(Nat) /\ Remembers(k, Recent(k), let[k], now)
<1> DEFINE b == buckets[k]
           l == let[k]
           r == Recent(k)
<1>1. /\ b \in Seq(Nat) /\ l \in Seq(Nat) /\ now \in Nat
      /\ Allowed[k[1]] \in Nat /\ Window(k) \in Nat
  BY WindowNumbers DEF WindowsTyped
<1>2. PICK m \in 0 .. Len(b) : /\ r = SubSeq(b, m + 1, Len(b))
                               /\ \A i \in 1 .. m : b[i] + Window(k) < now
  BY RecentIsEnd
<1>3. /\ Len(b) <= Len(l) /\ Len(b) <= Allowed[k[1]]
      /\ \A i \in DOMAIN l : l[i] <= now
      /\ \A i \in DOMAIN b : b[i] = l[Len(l) - Len(b) + i]
      /\ \A i \in 1 .. Len(l) - Len(b) : l[i] + Window(k) < now
  BY DEF Remembers
<1> HIDE DEF b, l, r
<1>4. r \in Seq(Nat) /\ Len(r) = Len(b) - m /\ \A i \in 1 .. Len(b) - m : r[i] = b[m + i]
  BY <1>1, <1>2
<1>5. Len(l) \in Nat /\ Len(b) \in Nat /\ Len(r) \in Nat /\ DOMAIN b = 1 .. Len(b)
  BY <1>1, <1>4
<1>6. \A i \in DOMAIN r : r[i] = l[Len(l) - Len(r) + i]
  <2> SUFFICES ASSUME NEW i \in 1 .. Len(b) - m PROVE r[i] = l[Len(l) - Len(r) + i]
    BY <1>4
  <2>1. m + i \in DOMAIN b
    BY <1>5
  <2>2. Len(l) - Len(b) + (m + i) = Len(l) - Len(r) + i
    BY <1>5, <1>4
  <2>3. b[m + i] = l[Len(l) - Len(b) + (m + i)]
    BY <1>3, <2>1
  <2>4. QED
    BY <1>4, <2>2, <2>3
<1>7. \A i \in 1 .. Len(l) - Len(r) : l[i] + Window(k) < now
  <2> SUFFICES ASSUME NEW i \in 1 .. Len(l) - Len(r) PROVE l[i] + Window(k) < now
    OBVIOUS
  <2>1. CASE i <= Len(l) - Len(b)
    BY <2>1, <1>1, <1>3
  <2>2. CASE i > Len(l) - Len(b)
    <3> DEFINE n == i - (Len(l) - Len(b))
    <3>1. n \in 1 .. m /\ n \in DOMAIN b /\ Len(l) - Len(b) + n = i
      BY <2>2, <1>5, <1>3, <1>4
    <3>2. b[n] = l[i]
      BY <1>3, <3>1
    <3>3. QED
      BY <1>2, <3>1, <3>2
  <2>3. QED
    BY <2>1, <2>2, <1>1
<1>8. Remembers(k, r, l, now)
  BY <1>1, <1>2, <1>3, <1>4, <1>6, <1>7 DEF Remembers
<1>9. QED
  BY <1>4, <1>8 DEF r, l

(* One more call: with room for it, the one that is as many calls back as  *)
(* the window allows was too old to count.                                 *)
LEMMA OneCallMore ==
  ASSUME NEW k \in Keys, NEW b \in Seq(Nat), NEW l \in Seq(Nat), NEW t \in Nat,
         Remembers(k, b, l, t), Kept(k, l), Len(b) < Allowed[k[1]]
  PROVE  /\ Append(b, t) \in Seq(Nat) /\ Append(l, t) \in Seq(Nat)
         /\ Remembers(k, Append(b, t), Append(l, t), t)
         /\ Kept(k, Append(l, t))
<1> DEFINE a == Allowed[k[1]]
           w == Window(k)
           c == Append(b, t)
           m == Append(l, t)
<1>1. a \in Nat /\ w \in Nat
  BY WindowNumbers
<1>2. /\ Len(b) <= Len(l)
      /\ \A i \in DOMAIN l : l[i] <= t
      /\ \A i \in DOMAIN b : b[i] = l[Len(l) - Len(b) + i]
      /\ \A i \in 1 .. Len(l) - Len(b) : l[i] + w < t
      /\ \A j \in DOMAIN l : j > a => l[j] - l[j - a] > w
      /\ Len(b) < a
  BY DEF Remembers, Kept
<1> HIDE DEF a, w
<1>3. /\ c \in Seq(Nat) /\ m \in Seq(Nat) /\ Len(c) = Len(b) + 1 /\ Len(m) = Len(l) + 1
      /\ c[Len(b) + 1] = t /\ m[Len(l) + 1] = t
      /\ \A i \in 1 .. Len(b) : c[i] = b[i]
      /\ \A i \in 1 .. Len(l) : m[i] = l[i]
  OBVIOUS
<1> HIDE DEF c, m
<1>4. /\ Len(m) - Len(c) = Len(l) - Len(b)
      /\ Len(b) \in Nat /\ Len(l) \in Nat
      /\ DOMAIN b = 1 .. Len(b) /\ DOMAIN l = 1 .. Len(l)
      /\ DOMAIN c = 1 .. Len(b) + 1 /\ DOMAIN m = 1 .. Len(l) + 1
  BY <1>3
<1>5. \A i \in DOMAIN m : m[i] <= t
  <2>1. \A i \in 1 .. Len(l) + 1 : i = Len(l) + 1 \/ i \in 1 .. Len(l)
    BY <1>4
  <2>2. \A i \in 1 .. Len(l) : m[i] = l[i] /\ l[i] <= t
    BY <1>2, <1>3, <1>4
  <2>3. m[Len(l) + 1] <= t
    BY <1>3
  <2>4. QED
    BY <1>4, <2>1, <2>2, <2>3
<1>6. \A i \in DOMAIN c : c[i] = m[Len(m) - Len(c) + i]
  <2> SUFFICES ASSUME NEW i \in 1 .. Len(b) + 1 PROVE c[i] = m[Len(l) - Len(b) + i]
    BY <1>4
  <2>1. CASE i = Len(b) + 1
    BY <2>1, <1>3, <1>4
  <2>2. CASE i # Len(b) + 1
    <3>1. Len(b) \in Nat /\ Len(l) \in Nat /\ Len(b) <= Len(l)
      BY <1>2, <1>4
    <3>2. i \in 1 .. Len(b) /\ Len(l) - Len(b) + i \in 1 .. Len(l)
      BY <2>2, <3>1
    <3>3. QED
      BY <3>2, <1>2, <1>3, <1>4
  <2>3. QED
    BY <2>1, <2>2
<1>7. \A i \in 1 .. Len(m) - Len(c) : m[i] + w < t
  <2>1. \A i \in 1 .. Len(l) - Len(b) : i \in 1 .. Len(l)
    BY <1>2, <1>4
  <2>2. \A i \in 1 .. Len(l) - Len(b) : m[i] = l[i]
    BY <1>3, <2>1
  <2>3. QED
    BY <1>2, <1>4, <2>2
<1>8. Remembers(k, c, m, t)
  BY <1>1, <1>2, <1>3, <1>4, <1>5, <1>6, <1>7 DEF Remembers, a, w
<1>9. ASSUME NEW j \in DOMAIN m, j > a PROVE m[j] - m[j - a] > w
  <2>1. CASE j = Len(l) + 1
    <3>1. j - a \in 1 .. Len(l) - Len(b) /\ j - a \in 1 .. Len(l)
      BY <2>1, <1>1, <1>2, <1>4, <1>9
    <3>2. l[j - a] + w < t /\ m[j - a] = l[j - a] /\ m[j] = t /\ l[j - a] \in Nat
      BY <2>1, <3>1, <1>2, <1>3
    <3>3. QED
      BY <3>2, <1>1
  <2>2. CASE j # Len(l) + 1
    <3>1. j \in 1 .. Len(l) /\ j - a \in 1 .. Len(l)
      BY <2>2, <1>1, <1>2, <1>4, <1>9
    <3>2. QED
      BY <3>1, <1>2, <1>3, <1>4, <1>9
  <2>3. QED
    BY <2>1, <2>2
<1>10. Kept(k, m)
  BY <1>9 DEF Kept, a, w
<1>11. QED
  BY <1>3, <1>8, <1>10 DEF c, m

(* Later, what was too old still is.                                       *)
LEMMA LaterRemembers ==
  ASSUME NEW k \in Keys, NEW b \in Seq(Nat), NEW l \in Seq(Nat), NEW t \in Nat,
         Remembers(k, b, l, t)
  PROVE  Remembers(k, b, l, t + 1)
<1>1. Allowed[k[1]] \in Nat /\ Window(k) \in Nat
  BY WindowNumbers
<1>2. \A i \in 1 .. Len(l) - Len(b) : l[i] \in Nat
  BY DEF Remembers
<1>3. QED
  BY <1>1, <1>2 DEF Remembers

LEMMA AsksKeeps ==
  ASSUME WindowsInv, NEW keys \in Seq(Keys), Asks(keys), now' = now
  PROVE  WindowsInv'
<1> DEFINE passed == {i \in DOMAIN keys : \A j \in 1 .. i : HasRoom(keys[j])}
           asked == {i \in DOMAIN keys : \A j \in 1 .. i - 1 : HasRoom(keys[j])}
           Under(I) == {keys[i] : i \in I}
           b(k) == IF k \in Under(passed) THEN Append(Recent(k), now)
                   ELSE IF k \in Under(asked) THEN Recent(k) ELSE buckets[k]
           l(k) == IF k \in Under(passed) THEN Append(let[k], now) ELSE let[k]
<1>1. buckets' = [k \in Keys |-> b(k)] /\ let' = [k \in Keys |-> l(k)]
  BY Zenon DEF Asks
<1>2. ASSUME NEW k \in Keys
      PROVE  /\ b(k) \in Seq(Nat) /\ l(k) \in Seq(Nat)
             /\ Remembers(k, b(k), l(k), now) /\ Kept(k, l(k))
  <2>1. /\ buckets[k] \in Seq(Nat) /\ let[k] \in Seq(Nat) /\ now \in Nat
        /\ Remembers(k, buckets[k], let[k], now) /\ Kept(k, let[k])
    BY DEF WindowsInv, WindowsTyped
  <2>2. Recent(k) \in Seq(Nat) /\ Remembers(k, Recent(k), let[k], now)
    BY <2>1, RecentRemembers DEF WindowsInv
  <2>3. CASE k \in Under(passed)
    <3>1. PICK i \in DOMAIN keys : keys[i] = k /\ \A j \in 1 .. i : HasRoom(keys[j])
      BY <2>3
    <3>2. HasRoom(k)
      BY <3>1
    <3>3. Len(Recent(k)) < Allowed[k[1]]
      BY <3>2 DEF HasRoom
    <3>4. QED
      BY <2>1, <2>2, <2>3, <3>3, OneCallMore
  <2>4. CASE k \notin Under(passed)
    BY <2>1, <2>2, <2>4
  <2>5. QED
    BY <2>3, <2>4
<1> HIDE DEF b, l
<1>3. WindowsTyped'
  BY <1>1, <1>2 DEF WindowsInv, WindowsTyped
<1>4. QED
  BY <1>1, <1>2, <1>3 DEF WindowsInv

LEMMA WindowsInitially == AccountsInit => WindowsInv
<1> SUFFICES ASSUME AccountsInit PROVE WindowsInv
  OBVIOUS
<1>1. WindowsTyped
  BY DEF AccountsInit, WindowsTyped
<1>2. ASSUME NEW k \in Keys
      PROVE  Remembers(k, buckets[k], let[k], now) /\ Kept(k, let[k])
  <2>1. buckets[k] = << >> /\ let[k] = << >>
    BY DEF AccountsInit
  <2>2. Allowed[k[1]] \in Nat
    BY WindowNumbers
  <2>3. QED
    BY <2>1, <2>2 DEF Remembers, Kept
<1>3. QED
  BY <1>1, <1>2 DEF WindowsInv

LEMMA WindowsStep == WindowsInv /\ [AccountsNext]_accountVars => WindowsInv'
<1> SUFFICES ASSUME WindowsInv, [AccountsNext]_accountVars PROVE WindowsInv'
  OBVIOUS
<1>1. CASE UNCHANGED <<now, buckets, let>>
  BY <1>1 DEF WindowsInv, WindowsTyped
<1>2. ASSUME NEW phone \in Phones, NEW ip \in Addresses, Forgot(phone, ip)
      PROVE  WindowsInv'
  <2>1. << <<"forgot", ip>> >> \in Seq(Keys)
    BY DEF Keys
  <2>2. QED
    BY <1>2, <2>1, AsksKeeps DEF Forgot
<1>3. ASSUME NEW phone \in Phones, NEW ip \in Addresses, NEW purpose \in Purposes,
             SendCode(phone, purpose, ip)
      PROVE  WindowsInv'
  <2>1. <<<<"phone_code", phone>>, <<"phone_code_ip", ip>>>> \in Seq(Keys)
    BY DEF Keys
  <2>2. QED
    BY <1>3, <2>1, AsksKeeps DEF SendCode
<1>4. ASSUME NEW name \in Names, NEW phone \in Phones, NEW i, NEW ip \in Addresses,
             Register(name, phone, i, ip)
      PROVE  WindowsInv'
  <2>1. << <<"register", ip>> >> \in Seq(Keys)
    BY DEF Keys
  <2>2. QED
    BY <1>4, <2>1, AsksKeeps DEF Register
<1>5. CASE TimePasses
  <2>1. WindowsTyped'
    BY <1>5 DEF TimePasses, WindowsInv, WindowsTyped
  <2>2. \A k \in Keys : Remembers(k, buckets[k], let[k], now + 1)
    BY LaterRemembers DEF WindowsInv, WindowsTyped
  <2>3. QED
    BY <1>5, <2>1, <2>2 DEF TimePasses, WindowsInv
<1>6. CASE Restart
  <2>1. WindowsTyped'
    BY <1>6 DEF Restart, WindowsInv, WindowsTyped
  <2>2. ASSUME NEW k \in Keys
        PROVE  Remembers(k, buckets'[k], let'[k], now') /\ Kept(k, let'[k])
    <3>1. buckets'[k] = << >> /\ let'[k] = << >>
      BY <1>6 DEF Restart
    <3>2. Allowed[k[1]] \in Nat
      BY WindowNumbers
    <3>3. QED
      BY <3>1, <3>2 DEF Remembers, Kept
  <2>3. QED
    BY <2>1, <2>2 DEF WindowsInv
<1>7. QED
  BY <1>1, <1>2, <1>3, <1>4, <1>5, <1>6 DEF AccountsNext, ResetPassword, accountVars

(* No window ever lets more calls through than it may within its length,   *)
(* wherever one puts it and however often the process starts again.        *)
THEOREM WindowsAreKept == AccountsSpec => []WindowKept
<1>1. WindowsInv => WindowKept
  BY DEF WindowsInv, Kept, WindowKept
<1>2. QED
  BY <1>1, WindowsInitially, WindowsStep, PTL DEF AccountsSpec

-----------------------------------------------------------------------------
(* The codes.                                                              *)

CodeRow == [phone : Phones, purpose : Purposes, expires : Nat, used : BOOLEAN]

SentAlike(c, d) == c.phone = d.phone /\ c.purpose = d.purpose

CodesTyped ==
  /\ now \in Nat
  /\ codes \in Seq(CodeRow)
  /\ accepted \in Seq(DOMAIN codes)
  /\ accounts \in [DOMAIN accounts -> [phone : Phones, password : Nat]]

(* Of the codes sent to a phone for the same, all but the last are used.   *)
OlderAreUsed ==
  \A i, j \in DOMAIN codes : i < j /\ SentAlike(codes[i], codes[j]) => codes[i].used

(* What was accepted is used, unless marking it failed.                    *)
AcceptedAreUsed ==
  \A j \in DOMAIN accepted : accepted[j] \notin unmarked => codes[accepted[j]].used

CodesInv == CodesTyped /\ OlderAreUsed /\ AcceptedAreUsed

(* A code that is marked is the same code, and used.                       *)
LEMMA MarkedCode ==
  ASSUME NEW c \in CodeRow
  PROVE  /\ [c EXCEPT !.used = TRUE] \in CodeRow
         /\ [c EXCEPT !.used = TRUE].used
         /\ [c EXCEPT !.used = TRUE].phone = c.phone
         /\ [c EXCEPT !.used = TRUE].purpose = c.purpose
         /\ [c EXCEPT !.used = TRUE].expires = c.expires
<1>1. [c EXCEPT !.used = TRUE] \in CodeRow
  BY DEF CodeRow
<1>2. QED
  BY <1>1, Zenon DEF CodeRow

(* The codes stay what they are, but for being used, and what was used     *)
(* stays used.                                                             *)
SameCodes(old, new) ==
  /\ new \in Seq(CodeRow) /\ Len(new) = Len(old)
  /\ \A i \in DOMAIN old :
       SentAlike(new[i], old[i]) /\ (old[i].used => new[i].used)

LEMMA UsedUpCodes ==
  ASSUME CodesTyped, NEW phone \in Phones, NEW purpose \in Purposes
  PROVE  /\ SameCodes(codes, UsedUp(phone, purpose))
         /\ \A i \in DOMAIN codes :
              codes[i].phone = phone /\ codes[i].purpose = purpose =>
                UsedUp(phone, purpose)[i].used
<1> DEFINE new == UsedUp(phone, purpose)
           mine(i) == codes[i].phone = phone /\ codes[i].purpose = purpose
<1>1. new = [i \in DOMAIN codes |->
               IF mine(i) THEN [codes[i] EXCEPT !.used = TRUE] ELSE codes[i]]
  BY DEF UsedUp
<1>2. codes \in Seq(CodeRow) /\ Len(codes) \in Nat /\ DOMAIN codes = 1 .. Len(codes)
  BY DEF CodesTyped
<1> HIDE DEF new
<1>3. ASSUME NEW i \in DOMAIN codes
      PROVE  /\ new[i] \in CodeRow /\ SentAlike(new[i], codes[i])
             /\ codes[i].used => new[i].used
             /\ mine(i) => new[i].used
  <2>1. codes[i] \in CodeRow
    BY <1>2
  <2>2. CASE mine(i)
    <3>1. new[i] = [codes[i] EXCEPT !.used = TRUE]
      BY <1>1, <2>2
    <3>2. QED
      BY <2>1, <3>1, MarkedCode DEF SentAlike
  <2>3. CASE ~mine(i)
    <3>1. new[i] = codes[i]
      BY <1>1, <2>3
    <3>2. QED
      BY <2>1, <2>3, <3>1 DEF SentAlike
  <2>4. QED
    BY <2>2, <2>3
<1>4. DOMAIN new = 1 .. Len(codes)
  BY <1>1, <1>2
<1>5. new \in Seq(CodeRow) /\ Len(new) = Len(codes)
  <2>1. new \in [1 .. Len(codes) -> CodeRow]
    BY <1>1, <1>2, <1>3
  <2>2. QED
    BY <1>2, <2>1
<1>6. QED
  BY <1>3, <1>5 DEF new, SameCodes

(* Codes that only become used disturb nothing.                            *)
LEMMA MarkingKeeps ==
  ASSUME CodesInv, SameCodes(codes, codes'), now' \in Nat,
         accepted' \in Seq(DOMAIN codes'),
         accounts' \in [DOMAIN accounts' -> [phone : Phones, password : Nat]],
         \A j \in DOMAIN accepted' :
           \/ \E k \in DOMAIN accepted : accepted[k] = accepted'[j]
           \/ accepted'[j] \in unmarked'
           \/ codes'[accepted'[j]].used,
         unmarked \subseteq unmarked'
  PROVE  CodesInv'
<1>1. /\ codes \in Seq(CodeRow) /\ accepted \in Seq(DOMAIN codes)
      /\ codes' \in Seq(CodeRow) /\ DOMAIN codes' = DOMAIN codes
      /\ \A i \in DOMAIN codes :
           SentAlike(codes'[i], codes[i]) /\ (codes[i].used => codes'[i].used)
  BY DEF CodesInv, CodesTyped, SameCodes
<1>2. CodesTyped'
  BY <1>1 DEF CodesTyped
<1>3. OlderAreUsed'
  BY <1>1 DEF CodesInv, OlderAreUsed, SentAlike
<1>4. AcceptedAreUsed'
  <2> SUFFICES ASSUME NEW j \in DOMAIN accepted', accepted'[j] \notin unmarked'
               PROVE  codes'[accepted'[j]].used
    BY DEF AcceptedAreUsed
  <2>1. CASE \E k \in DOMAIN accepted : accepted[k] = accepted'[j]
    <3>1. PICK k \in DOMAIN accepted : accepted[k] = accepted'[j]
      BY <2>1
    <3>2. accepted[k] \in DOMAIN codes /\ codes[accepted[k]].used
      BY <1>1, <3>1 DEF CodesInv, AcceptedAreUsed
    <3>3. QED
      BY <1>1, <3>1, <3>2
  <2>2. QED
    BY <2>1
<1>5. QED
  BY <1>2, <1>3, <1>4 DEF CodesInv

(* A new code finds all older ones for the same used up.                   *)
LEMMA SaveCodeKeeps ==
  ASSUME CodesInv, NEW phone \in Phones, NEW purpose \in Purposes, SaveCode(phone, purpose),
         UNCHANGED <<now, accounts, accepted, unmarked>>
  PROVE  CodesInv'
<1> DEFINE new == UsedUp(phone, purpose)
           code == [phone |-> phone, purpose |-> purpose,
                    expires |-> now + CodeLife, used |-> FALSE]
<1>1. /\ now \in Nat /\ codes \in Seq(CodeRow) /\ accepted \in Seq(DOMAIN codes)
      /\ accounts \in [DOMAIN accounts -> [phone : Phones, password : Nat]]
  BY DEF CodesInv, CodesTyped
<1>2. /\ SameCodes(codes, new)
      /\ \A i \in DOMAIN codes :
           codes[i].phone = phone /\ codes[i].purpose = purpose => new[i].used
  BY UsedUpCodes DEF CodesInv
<1>3. code \in CodeRow /\ code.phone = phone /\ code.purpose = purpose
  BY <1>1, LimitsAssumption DEF CodeRow
<1> HIDE DEF new, code
<1>4. /\ new \in Seq(CodeRow) /\ Len(new) = Len(codes) /\ DOMAIN new = DOMAIN codes
      /\ \A i \in DOMAIN codes :
           SentAlike(new[i], codes[i]) /\ (codes[i].used => new[i].used)
  BY <1>1, <1>2 DEF SameCodes
<1>5. CASE codes' = new
  <2>1. \A j \in DOMAIN accepted' : \E k \in DOMAIN accepted : accepted[k] = accepted'[j]
    OBVIOUS
  <2>2. SameCodes(codes, codes') /\ DOMAIN codes' = DOMAIN codes
    BY <1>2, <1>4, <1>5
  <2>3. QED
    BY <1>1, <2>1, <2>2, MarkingKeeps
<1>6. CASE codes' = Append(new, code)
  <2> DEFINE last == Len(codes) + 1
  <2>1. /\ codes' \in Seq(CodeRow) /\ DOMAIN codes' = DOMAIN codes \cup {last}
        /\ codes'[last] = code
        /\ \A i \in DOMAIN codes : codes'[i] = new[i] /\ i < last
        /\ last \in Nat /\ DOMAIN codes \subseteq Nat
    BY <1>1, <1>3, <1>4, <1>6
  <2> HIDE DEF last
  <2>2. CodesTyped'
    BY <1>1, <2>1 DEF CodesTyped
  <2>3. OlderAreUsed'
    <3> SUFFICES ASSUME NEW i \in DOMAIN codes', NEW j \in DOMAIN codes',
                        i < j, SentAlike(codes'[i], codes'[j])
                 PROVE  codes'[i].used
      BY DEF OlderAreUsed
    <3>1. i \in DOMAIN codes
      <4>1. i \in Nat /\ j \in Nat /\ (j = last \/ j < last)
        BY <2>1
      <4>2. i # last
        BY <4>1, <2>1
      <4>3. QED
        BY <4>2, <2>1
    <3>2. CASE j = last
      <4>1. codes[i].phone = phone /\ codes[i].purpose = purpose
        BY <1>3, <1>4, <2>1, <3>1, <3>2 DEF SentAlike
      <4>2. QED
        BY <1>2, <2>1, <3>1, <4>1
    <3>3. CASE j \in DOMAIN codes
      <4>1. SentAlike(codes[i], codes[j])
        BY <1>4, <2>1, <3>1, <3>3 DEF SentAlike
      <4>2. codes[i].used
        BY <3>1, <3>3, <4>1 DEF CodesInv, OlderAreUsed
      <4>3. QED
        BY <1>4, <2>1, <3>1, <4>2
    <3>4. QED
      BY <2>1, <3>2, <3>3
  <2>4. AcceptedAreUsed'
    <3> SUFFICES ASSUME NEW j \in DOMAIN accepted, accepted[j] \notin unmarked
                 PROVE  codes'[accepted[j]].used
      BY DEF AcceptedAreUsed
    <3>1. accepted[j] \in DOMAIN codes /\ codes[accepted[j]].used
      BY <1>1 DEF CodesInv, AcceptedAreUsed
    <3>2. QED
      BY <1>4, <2>1, <3>1
  <2>5. QED
    BY <2>2, <2>3, <2>4 DEF CodesInv
<1>7. QED
  BY <1>5, <1>6 DEF SaveCode, new, code

(* A code that was accepted is marked, or known not to be.                 *)
LEMMA SpendKeeps ==
  ASSUME CodesInv, NEW i \in DOMAIN codes, Spend(i), now' = now,
         accounts' \in [DOMAIN accounts' -> [phone : Phones, password : Nat]]
  PROVE  CodesInv'
<1>1. now \in Nat /\ codes \in Seq(CodeRow) /\ accepted \in Seq(DOMAIN codes)
  BY DEF CodesInv, CodesTyped
<1>2. /\ accepted' = Append(accepted, i) /\ accepted' \in Seq(DOMAIN codes)
      /\ DOMAIN accepted' = DOMAIN accepted \cup {Len(accepted) + 1}
      /\ accepted'[Len(accepted) + 1] = i
      /\ \A j \in DOMAIN accepted : accepted'[j] = accepted[j]
  BY <1>1 DEF Spend
<1>3. CASE codes' = [codes EXCEPT ![i].used = TRUE] /\ UNCHANGED unmarked
  <2> DEFINE marked == [codes[i] EXCEPT !.used = TRUE]
  <2>1. marked \in CodeRow /\ SentAlike(marked, codes[i]) /\ marked.used
    BY <1>1, MarkedCode DEF SentAlike
  <2>2. codes' = [codes EXCEPT ![i] = marked]
    BY <1>3, Zenon
  <2> HIDE DEF marked
  <2>3. /\ codes' \in Seq(CodeRow) /\ Len(codes') = Len(codes) /\ DOMAIN codes' = DOMAIN codes
        /\ codes'[i] = marked /\ \A j \in DOMAIN codes : j # i => codes'[j] = codes[j]
    BY <1>1, <2>1, <2>2
  <2>4. SameCodes(codes, codes')
    BY <2>1, <2>3 DEF SameCodes, SentAlike
  <2>5. \A j \in DOMAIN accepted' :
          \/ \E k \in DOMAIN accepted : accepted[k] = accepted'[j]
          \/ codes'[accepted'[j]].used
    BY <1>2, <2>1, <2>3
  <2>6. QED
    BY <1>1, <1>2, <1>3, <2>3, <2>4, <2>5, MarkingKeeps
<1>4. CASE unmarked' = unmarked \cup {i} /\ UNCHANGED codes
  <2>1. SameCodes(codes, codes')
    BY <1>1, <1>4 DEF SameCodes, SentAlike
  <2>2. \A j \in DOMAIN accepted' :
          \/ \E k \in DOMAIN accepted : accepted[k] = accepted'[j]
          \/ accepted'[j] \in unmarked'
    BY <1>2, <1>4
  <2>3. QED
    BY <1>1, <1>2, <1>4, <2>1, <2>2, MarkingKeeps
<1>5. QED
  BY <1>3, <1>4 DEF Spend

(* What get_verification_code finds was sent for this and is not used.     *)
LEMMA CurrentIsUnused ==
  ASSUME CodesTyped, NEW phone, NEW purpose, Current(phone, purpose) # 0
  PROVE  LET i == Current(phone, purpose)
         IN /\ i \in DOMAIN codes /\ ~codes[i].used
            /\ codes[i].phone = phone /\ codes[i].purpose = purpose
<1> DEFINE S == {0} \cup {i \in DOMAIN codes : /\ codes[i].phone = phone
                                               /\ codes[i].purpose = purpose
                                               /\ ~codes[i].used}
           b == Len(codes)
<1>1. b \in Nat /\ DOMAIN codes = 1 .. b
  BY DEF CodesTyped
<1>2. S \in SUBSET (0 .. b) /\ S # {}
  BY <1>1
<1>3. Current(phone, purpose) = Max(S)
  BY DEF Current
<1>4. Max(S) \in S
  <2> HIDE DEF S, b
  <2>1. PICK m \in S : \A k \in S : k <= m
    BY <1>1, <1>2, GreatestNumber
  <2>2. \A k \in S : m >= k
    BY <1>1, <1>2, <2>1
  <2>3. QED
    BY <2>2 DEF Max
<1>5. QED
  BY <1>3, <1>4

LEMMA CodesInitially == AccountsInit => CodesInv
  BY DEF AccountsInit, CodesInv, CodesTyped, OlderAreUsed, AcceptedAreUsed

(* Who registers, and whose password is reset.                             *)
LEMMA RegisterParts ==
  ASSUME CodesInv, NEW name \in Names, NEW phone \in Phones, NEW i, NEW ip,
         Register(name, phone, i, ip), accepted' # accepted
  PROVE  /\ name \notin DOMAIN accounts /\ Accepts(i, phone, "register") /\ Spend(i)
         /\ now' = now /\ DOMAIN accounts' = DOMAIN accounts \cup {name}
         /\ accounts' \in [DOMAIN accounts' -> [phone : Phones, password : Nat]]
         /\ accounts'[name].phone = phone
         /\ \A n \in DOMAIN accounts : accounts'[n] = accounts[n]
<1> DEFINE fresh == [phone |-> phone, password |-> 0]
<1>1. /\ name \notin DOMAIN accounts /\ Accepts(i, phone, "register") /\ Spend(i) /\ now' = now
      /\ accounts' = [n \in DOMAIN accounts \cup {name} |->
                        IF n = name THEN fresh ELSE accounts[n]]
  BY Zenon DEF Register
<1>2. fresh \in [phone : Phones, password : Nat] /\ fresh.phone = phone
  OBVIOUS
<1> HIDE DEF fresh
<1>3. QED
  BY <1>1, <1>2 DEF CodesInv, CodesTyped

LEMMA ResetParts ==
  ASSUME CodesInv, NEW phone \in Phones, NEW i, ResetPassword(phone, i)
  PROVE  /\ Accepts(i, phone, "reset") /\ Spend(i)
         /\ now' = now /\ DOMAIN accounts' = DOMAIN accounts
         /\ accounts' \in [DOMAIN accounts' -> [phone : Phones, password : Nat]]
         /\ \A n \in DOMAIN accounts : accounts'[n] = accounts[n] \/ accounts'[n].phone = phone
<1>1. PICK n \in AccountAt(phone) :
        /\ Accepts(i, phone, "reset") /\ Spend(i) /\ now' = now
        /\ accounts' = [accounts EXCEPT ![n].password = @ + 1]
  BY DEF ResetPassword
<1> DEFINE account == [accounts[n] EXCEPT !.password = @ + 1]
<1>2. n \in DOMAIN accounts /\ accounts[n].phone = phone
      /\ accounts[n] \in [phone : Phones, password : Nat]
  BY DEF AccountAt, CodesInv, CodesTyped
<1>3. account \in [phone : Phones, password : Nat] /\ account.phone = phone
  BY <1>2
<1>4. accounts' = [accounts EXCEPT ![n] = account]
  BY <1>1, Zenon
<1> HIDE DEF account
<1>5. QED
  BY <1>1, <1>2, <1>3, <1>4 DEF CodesInv, CodesTyped

LEMMA CodesStep == CodesInv /\ [AccountsNext]_accountVars => CodesInv'
<1> SUFFICES ASSUME CodesInv, [AccountsNext]_accountVars PROVE CodesInv'
  OBVIOUS
<1>1. CASE UNCHANGED <<now, accounts, codes, accepted, unmarked>>
  BY <1>1 DEF CodesInv, CodesTyped, OlderAreUsed, AcceptedAreUsed
<1>2. ASSUME NEW phone \in Phones, NEW ip \in Addresses, Forgot(phone, ip)
      PROVE  CodesInv'
  BY <1>1, <1>2, SaveCodeKeeps DEF Forgot, Purposes
<1>3. ASSUME NEW phone \in Phones, NEW ip \in Addresses, NEW purpose \in Purposes,
             SendCode(phone, purpose, ip)
      PROVE  CodesInv'
  BY <1>1, <1>3, SaveCodeKeeps DEF SendCode
<1>4. ASSUME NEW name \in Names, NEW phone \in Phones, NEW i \in DOMAIN codes \cup {0},
             NEW ip \in Addresses, Register(name, phone, i, ip)
      PROVE  CodesInv'
  <2>1. CASE accepted' # accepted
    <3>1. Accepts(i, phone, "register") /\ Spend(i) /\ now' = now
          /\ accounts' \in [DOMAIN accounts' -> [phone : Phones, password : Nat]]
      BY <1>4, <2>1, RegisterParts
    <3>2. i \in DOMAIN codes
      BY <3>1 DEF Accepts
    <3>3. QED
      BY <3>1, <3>2, SpendKeeps
  <2>2. CASE accepted' = accepted
    <3>1. Append(accepted, i) # accepted
      BY DEF CodesInv, CodesTyped
    <3>2. UNCHANGED <<now, accounts, codes, accepted, unmarked>>
      BY <1>4, <2>2, <3>1 DEF Register, Spend
    <3>3. QED
      BY <1>1, <3>2
  <2>3. QED
    BY <2>1, <2>2
<1>5. ASSUME NEW phone \in Phones, NEW i \in DOMAIN codes, ResetPassword(phone, i)
      PROVE  CodesInv'
  BY <1>5, ResetParts, SpendKeeps
<1>6. CASE TimePasses
  BY <1>6 DEF TimePasses, CodesInv, CodesTyped, OlderAreUsed, AcceptedAreUsed
<1>7. QED
  BY <1>1, <1>2, <1>3, <1>4, <1>5, <1>6 DEF AccountsNext, Restart, accountVars

(* What AcceptedIsNewest says of a step.                                   *)
TakesNewest ==
  Len(accepted') > Len(accepted) =>
    LET i == Last(accepted')
        Same(j) == codes[j].phone = codes[i].phone /\ codes[j].purpose = codes[i].purpose
        changed == {n \in DOMAIN accounts' :
                      n \notin DOMAIN accounts \/ accounts'[n] # accounts[n]}
    IN /\ \A j \in DOMAIN codes : Same(j) => j <= i
       /\ now <= codes[i].expires
       /\ i \in ToSet(accepted) => i \in unmarked
       /\ \A n \in changed :
            /\ accounts'[n].phone = codes[i].phone
            /\ codes[i].purpose = IF n \in DOMAIN accounts THEN "reset" ELSE "register"

LEMMA AcceptedCode ==
  ASSUME CodesInv, NEW i, NEW phone, NEW purpose, Accepts(i, phone, purpose), Spend(i)
  PROVE  /\ Last(accepted') = i /\ i \in DOMAIN codes
         /\ codes[i].phone = phone /\ codes[i].purpose = purpose
         /\ \A j \in DOMAIN codes : SentAlike(codes[j], codes[i]) => j <= i
         /\ now <= codes[i].expires
         /\ i \in ToSet(accepted) => i \in unmarked
<1>1. /\ now \in Nat /\ codes \in Seq(CodeRow) /\ accepted \in Seq(DOMAIN codes)
  BY DEF CodesInv, CodesTyped
<1>2. /\ i \in DOMAIN codes /\ ~codes[i].used
      /\ codes[i].phone = phone /\ codes[i].purpose = purpose
  BY CurrentIsUnused DEF Accepts, CodesInv
<1>3. \A j \in DOMAIN codes : SentAlike(codes[j], codes[i]) => j <= i
  <2> SUFFICES ASSUME NEW j \in DOMAIN codes, SentAlike(codes[j], codes[i]), ~ (j <= i)
               PROVE  FALSE
    OBVIOUS
  <2>1. i < j
    BY <1>1, <1>2
  <2>2. codes[i].used
    BY <1>2, <2>1 DEF CodesInv, OlderAreUsed, SentAlike
  <2>3. QED
    BY <1>2, <2>2
<1>4. now <= codes[i].expires
  <2>1. codes[i] \in CodeRow
    BY <1>1, <1>2
  <2>2. codes[i].expires \in Nat
    BY <2>1 DEF CodeRow
  <2>3. QED
    BY <1>1, <2>2 DEF Accepts
<1>5. i \in ToSet(accepted) => i \in unmarked
  BY <1>2 DEF ToSet, CodesInv, AcceptedAreUsed
<1>6. Last(accepted') = i
  <2>1. accepted' = Append(accepted, i)
    BY DEF Spend
  <2>2. QED
    BY <1>1, <1>2, <2>1 DEF Last
<1>7. QED
  BY <1>2, <1>3, <1>4, <1>5, <1>6

LEMMA StepTakesNewest == CodesInv /\ [AccountsNext]_accountVars => TakesNewest
<1> SUFFICES ASSUME CodesInv, [AccountsNext]_accountVars, Len(accepted') > Len(accepted)
             PROVE  TakesNewest
  BY DEF TakesNewest
<1>1. accepted' # accepted
  BY DEF CodesInv, CodesTyped
<1>2. ASSUME NEW name \in Names, NEW phone \in Phones, NEW i, NEW ip,
             Register(name, phone, i, ip)
      PROVE  TakesNewest
  <2>1. /\ name \notin DOMAIN accounts /\ Accepts(i, phone, "register") /\ Spend(i)
        /\ DOMAIN accounts' = DOMAIN accounts \cup {name} /\ accounts'[name].phone = phone
        /\ \A n \in DOMAIN accounts : accounts'[n] = accounts[n]
    BY <1>1, <1>2, RegisterParts
  <2>2. /\ Last(accepted') = i /\ codes[i].phone = phone /\ codes[i].purpose = "register"
        /\ \A j \in DOMAIN codes : SentAlike(codes[j], codes[i]) => j <= i
        /\ now <= codes[i].expires
        /\ i \in ToSet(accepted) => i \in unmarked
    BY <2>1, AcceptedCode
  <2>3. QED
    BY <2>1, <2>2 DEF TakesNewest, SentAlike
<1>3. ASSUME NEW phone \in Phones, NEW i, ResetPassword(phone, i)
      PROVE  TakesNewest
  <2>1. /\ Accepts(i, phone, "reset") /\ Spend(i) /\ DOMAIN accounts' = DOMAIN accounts
        /\ \A n \in DOMAIN accounts : accounts'[n] = accounts[n] \/ accounts'[n].phone = phone
    BY <1>3, ResetParts
  <2>2. /\ Last(accepted') = i /\ codes[i].phone = phone /\ codes[i].purpose = "reset"
        /\ \A j \in DOMAIN codes : SentAlike(codes[j], codes[i]) => j <= i
        /\ now <= codes[i].expires
        /\ i \in ToSet(accepted) => i \in unmarked
    BY <2>1, AcceptedCode
  <2>3. QED
    BY <2>1, <2>2 DEF TakesNewest, SentAlike
<1>4. QED
  BY <1>1, <1>2, <1>3
  DEF AccountsNext, accountVars, Forgot, SendCode, TimePasses, Restart

(* A code that opens an account or sets a password is the newest sent to   *)
(* that phone for that, in its time, and spent once unless marking failed. *)
THEOREM CodesAreNewest == AccountsSpec => AcceptedIsNewest
<1>1. CodesInv /\ [AccountsNext]_accountVars => [TakesNewest]_accountVars
  BY StepTakesNewest
<1>2. QED
  BY <1>1, CodesInitially, CodesStep, PTL DEF AccountsSpec, AcceptedIsNewest, TakesNewest

(* What else is bounded, or a name.                                        *)
AccountsBounded ==
  /\ now <= MaxTime
  /\ DOMAIN accounts \subseteq Names
  /\ \A n \in DOMAIN accounts : accounts[n].password <= MaxPasswordsSet
  /\ unmarked \subseteq DOMAIN codes
  /\ mishaps \in 0 .. MaxMishaps

LEMMA SpendBounded ==
  ASSUME CodesInv, AccountsBounded, NEW i \in DOMAIN codes, Spend(i)
  PROVE  unmarked' \subseteq DOMAIN codes' /\ mishaps' \in 0 .. MaxMishaps
<1>1. DOMAIN codes' = DOMAIN codes
  BY DEF Spend
<1>2. QED
  BY <1>1, LimitsAssumption DEF Spend, AllWell, Mishap, AccountsBounded

LEMMA SaveCodeBounded ==
  ASSUME CodesInv, AccountsBounded, NEW phone \in Phones, NEW purpose \in Purposes,
         SaveCode(phone, purpose)
  PROVE  DOMAIN codes \subseteq DOMAIN codes' /\ mishaps' \in 0 .. MaxMishaps
<1> DEFINE new == UsedUp(phone, purpose)
<1>1. new \in Seq(CodeRow) /\ DOMAIN new = DOMAIN codes
  BY UsedUpCodes DEF CodesInv, CodesTyped, SameCodes
<1>2. codes' = new \/ \E code : codes' = Append(new, code)
  BY DEF SaveCode
<1> HIDE DEF new
<1>3. DOMAIN codes \subseteq DOMAIN codes'
  BY <1>1, <1>2
<1>4. QED
  BY <1>3, LimitsAssumption DEF SaveCode, AllWell, Mishap, AccountsBounded

LEMMA AccountsBoundedStep ==
  CodesInv /\ AccountsBounded /\ [AccountsNext]_accountVars => AccountsBounded'
<1> SUFFICES ASSUME CodesInv, AccountsBounded, [AccountsNext]_accountVars
             PROVE  AccountsBounded'
  OBVIOUS
<1>1. CASE UNCHANGED <<now, accounts, codes, unmarked, mishaps>>
  BY <1>1 DEF AccountsBounded
<1>2. ASSUME NEW phone \in Phones, NEW purpose \in Purposes, SaveCode(phone, purpose),
             UNCHANGED <<now, accounts, unmarked>>
      PROVE  AccountsBounded'
  BY <1>2, SaveCodeBounded DEF AccountsBounded
<1>3. ASSUME NEW phone \in Phones, NEW ip, Forgot(phone, ip) PROVE AccountsBounded'
  BY <1>1, <1>2, <1>3 DEF Forgot, Purposes
<1>4. ASSUME NEW phone \in Phones, NEW purpose \in Purposes, NEW ip,
             SendCode(phone, purpose, ip)
      PROVE  AccountsBounded'
  BY <1>1, <1>2, <1>4 DEF SendCode
<1>5. ASSUME NEW name \in Names, NEW phone \in Phones, NEW i, NEW ip,
             Register(name, phone, i, ip)
      PROVE  AccountsBounded'
  <2> DEFINE fresh == [phone |-> phone, password |-> 0]
  <2>1. CASE UNCHANGED <<now, accounts, codes, unmarked, mishaps>>
    BY <1>1, <2>1
  <2>2. CASE ~ UNCHANGED <<now, accounts, codes, unmarked, mishaps>>
    <3>1. /\ Accepts(i, phone, "register") /\ Spend(i) /\ now' = now
          /\ accounts' = [n \in DOMAIN accounts \cup {name} |->
                            IF n = name THEN fresh ELSE accounts[n]]
      BY <1>5, <2>2, Zenon DEF Register
    <3>2. fresh.password <= MaxPasswordsSet
      BY LimitsAssumption
    <3>3. i \in DOMAIN codes
      BY <3>1, CurrentIsUnused DEF Accepts, CodesInv
    <3> HIDE DEF fresh
    <3>4. /\ DOMAIN accounts' \subseteq Names
          /\ \A n \in DOMAIN accounts' : accounts'[n].password <= MaxPasswordsSet
      BY <3>1, <3>2 DEF AccountsBounded
    <3>5. QED
      BY <3>1, <3>3, <3>4, SpendBounded DEF AccountsBounded
  <2>3. QED
    BY <2>1, <2>2
<1>6. ASSUME NEW phone \in Phones, NEW i \in DOMAIN codes, ResetPassword(phone, i)
      PROVE  AccountsBounded'
  <2>1. PICK n \in AccountAt(phone) :
          /\ Spend(i) /\ now' = now /\ accounts[n].password < MaxPasswordsSet
          /\ accounts' = [accounts EXCEPT ![n].password = @ + 1]
    BY <1>6 DEF ResetPassword
  <2> DEFINE account == [accounts[n] EXCEPT !.password = @ + 1]
  <2>2. accounts[n] \in [phone : Phones, password : Nat]
    BY DEF AccountAt, CodesInv, CodesTyped
  <2>3. account.password <= MaxPasswordsSet
    BY <2>1, <2>2, LimitsAssumption
  <2>4. accounts' = [accounts EXCEPT ![n] = account]
    BY <2>1, Zenon
  <2> HIDE DEF account
  <2>5. /\ DOMAIN accounts' \subseteq Names
        /\ \A m \in DOMAIN accounts' : accounts'[m].password <= MaxPasswordsSet
    BY <2>3, <2>4 DEF AccountsBounded
  <2>6. QED
    BY <2>1, <2>5, SpendBounded DEF AccountsBounded
<1>7. CASE TimePasses
  BY <1>7, LimitsAssumption DEF TimePasses, AccountsBounded, CodesInv, CodesTyped
<1>8. CASE Restart
  BY <1>8, LimitsAssumption DEF Restart, Mishap, AccountsBounded
<1>9. QED
  BY <1>1, <1>3, <1>4, <1>5, <1>6, <1>7, <1>8 DEF AccountsNext, accountVars

(* The stamps of a window are times that have been.                        *)
LEMMA StampsArePast ==
  ASSUME WindowsInv, NEW k \in Keys
  PROVE  buckets[k] \in Seq(0 .. now) /\ let[k] \in Seq(0 .. now)
<1> DEFINE b == buckets[k]
           l == let[k]
<1>1. /\ b \in Seq(Nat) /\ l \in Seq(Nat) /\ now \in Nat
      /\ Len(b) <= Len(l)
      /\ \A i \in DOMAIN l : l[i] <= now
      /\ \A i \in DOMAIN b : b[i] = l[Len(l) - Len(b) + i]
  BY DEF WindowsInv, WindowsTyped, Remembers
<1> HIDE DEF b, l
<1>2. \A i \in DOMAIN l : l[i] \in 0 .. now
  BY <1>1
<1>3. \A i \in DOMAIN b : Len(l) - Len(b) + i \in DOMAIN l
  BY <1>1
<1>4. \A i \in DOMAIN b : b[i] \in 0 .. now
  BY <1>1, <1>2, <1>3
<1>5. b \in Seq(0 .. now) /\ l \in Seq(0 .. now)
  <2> DEFINE past == 0 .. now
  <2>1. b \in [1 .. Len(b) -> past] /\ l \in [1 .. Len(l) -> past]
    BY <1>1, <1>2, <1>4
  <2>2. Len(b) \in Nat /\ Len(l) \in Nat
    BY <1>1
  <2> HIDE DEF past
  <2>3. b \in Seq(past) /\ l \in Seq(past)
    BY <2>1, <2>2, SeqDef
  <2>4. QED
    BY <2>3 DEF past
<1>6. QED
  BY <1>5 DEF b, l

(* Accounts, codes and windows hold only what they can hold: each stamp is *)
(* a time that has been, and what was accepted or left unmarked is a code. *)
THEOREM AccountsTypeCorrect == AccountsSpec => []AccountsTypeOK
<1>1. WindowsInv /\ CodesInv /\ AccountsBounded => AccountsTypeOK
  <2> SUFFICES ASSUME WindowsInv, CodesInv, AccountsBounded PROVE AccountsTypeOK
    OBVIOUS
  <2>1. /\ buckets \in [Keys -> Seq(0 .. now)] /\ let \in [Keys -> Seq(0 .. now)]
        /\ now \in 0 .. MaxTime
    BY StampsArePast, LimitsAssumption DEF WindowsInv, WindowsTyped, AccountsBounded
  <2>2. ASSUME NEW n \in DOMAIN accounts
        PROVE  accounts[n] \in [phone : Phones, password : 0 .. MaxPasswordsSet]
    BY LimitsAssumption DEF CodesInv, CodesTyped, AccountsBounded
  <2>3. QED
    BY <2>1, <2>2 DEF CodesInv, CodesTyped, CodeRow, AccountsBounded, AccountsTypeOK
<1>2. AccountsInit => AccountsBounded
  BY LimitsAssumption DEF AccountsInit, AccountsBounded
<1>3. QED
  BY <1>1, <1>2, WindowsInitially, WindowsStep, CodesInitially, CodesStep, AccountsBoundedStep, PTL
  DEF AccountsSpec

-----------------------------------------------------------------------------
(* The second factor.                                                      *)

(* A call under way knows the secret as it is, unless it was changed since *)
(* the call read it.                                                       *)
RowsFresh ==
  \A c \in TotpCalls : row[c] # Idle /\ c \notin outdated => row[c] = totp

FactorInv == FactorTypeOK /\ RowsFresh

LEMMA FactorInitially == FactorInit => FactorInv
  BY SecretsAssumption DEF FactorInit, FactorInv, FactorTypeOK, RowsFresh

(* Storing a secret makes the other calls outdated, unless it is the same. *)
LEMMA StoringKeeps ==
  ASSUME FactorInv, NEW c \in TotpCalls, row[c] # Idle,
         NEW s \in Secrets \cup {NoSecret}, Stores(c, s)
  PROVE  FactorInv'
<1>1. FactorTypeOK'
  BY SecretsAssumption DEF FactorInv, FactorTypeOK, Stores
<1>2. ASSUME NEW d \in TotpCalls, row'[d] # Idle, d \notin outdated'
      PROVE  row'[d] = totp'
  <2>1. d # c /\ row'[d] = row[d]
    BY <1>2 DEF Stores, FactorInv, FactorTypeOK
  <2>2. s = totp
    BY <1>2 DEF Stores
  <2>3. QED
    BY <1>2, <2>1, <2>2 DEF Stores, FactorInv, RowsFresh
<1>3. QED
  BY <1>1, <1>2 DEF FactorInv, RowsFresh

LEMMA FactorStep == FactorInv /\ [FactorNext]_factorVars => FactorInv'
<1> SUFFICES ASSUME FactorInv, [FactorNext]_factorVars PROVE FactorInv'
  OBVIOUS
<1>1. ASSUME NEW c \in TotpCalls, ReadRow(c) PROVE FactorInv'
  BY <1>1 DEF FactorInv, FactorTypeOK, RowsFresh, ReadRow
<1>2. ASSUME NEW c \in TotpCalls, NEW s \in Secrets, Enable(c, s) PROVE FactorInv'
  BY <1>2, StoringKeeps, SecretsAssumption DEF Enable
<1>3. ASSUME NEW c \in TotpCalls, Disable(c) PROVE FactorInv'
  BY <1>3, StoringKeeps, SecretsAssumption DEF Disable
<1>4. ASSUME NEW c \in TotpCalls, Refuse(c) PROVE FactorInv'
  BY <1>4 DEF FactorInv, FactorTypeOK, RowsFresh, Refuse
<1>5. CASE UNCHANGED factorVars
  BY <1>5 DEF FactorInv, FactorTypeOK, RowsFresh, factorVars
<1>6. QED
  BY <1>1, <1>2, <1>3, <1>4, <1>5 DEF FactorNext

(* Whoever takes a second factor away has shown a code of it, or had read  *)
(* the account before it was on; it is never exchanged for another.        *)
THEOREM SecondFactorIsHeld == FactorSpec => SecondFactorHeld
<1>1. FactorInv /\ [FactorNext]_factorVars =>
        [\A c \in TotpCalls :
           totp \in Secrets /\ totp' # totp /\ row'[c] # row[c] =>
             \/ c \in outdated
             \/ row[c] = totp /\ totp' = NoSecret]_factorVars
  <2> SUFFICES ASSUME FactorInv, FactorNext, totp \in Secrets, totp' # totp,
                      NEW c \in TotpCalls, row'[c] # row[c], c \notin outdated
               PROVE  row[c] = totp /\ totp' = NoSecret
    OBVIOUS
  <2>1. PICK d \in TotpCalls : Disable(d) \/ \E s \in Secrets : Enable(d, s)
    BY DEF FactorNext, ReadRow, Refuse
  <2>2. d = c /\ row[c] # Idle
    BY <2>1, SecretsAssumption DEF Enable, Disable, Stores, FactorInv, FactorTypeOK
  <2>3. row[c] = totp
    BY <2>2 DEF FactorInv, RowsFresh
  <2>4. QED
    BY <2>1, <2>2, <2>3, SecretsAssumption DEF Enable, Disable, Stores
<1>2. QED
  BY <1>1, FactorInitially, FactorStep, PTL DEF FactorSpec, SecondFactorHeld

(* The rows that calls have read are secrets or none.                      *)
THEOREM FactorTypeCorrect == FactorSpec => []FactorTypeOK
<1>1. FactorInv => FactorTypeOK
  BY DEF FactorInv
<1>2. QED
  BY <1>1, FactorInitially, FactorStep, PTL DEF FactorSpec

-----------------------------------------------------------------------------
(* Sessions: a login has one refresh token that works, and one that has    *)
(* none does not get one again.                                            *)

(* The token that a call exchanges, or has got, has a row.                 *)
CallsHaveRows ==
  \A c \in Calls : call[c].at \in {"refreshing", "granted"} => call[c].token \in Rows

(* Every row belongs to a login there was.                                 *)
LoginsAreCounted == \A i \in Rows : tokens[i].login <= logins

SessionInv ==
  /\ TypeOK
  /\ CallsHaveRows
  /\ LoginsAreCounted
  /\ OneTokenPerLogin
  /\ LockedIsLoggedOut
  /\ NewPasswordEndsSessions

-----------------------------------------------------------------------------
(* What the three statements make of the rows: no more row works, or one   *)
(* more, which is the last.                                                *)
RowsKept(rows) ==
  /\ rows \in Seq(Token)
  /\ DOMAIN rows = Rows
  /\ \A i \in Rows :
       /\ rows[i].login = tokens[i].login
       /\ rows[i].password = tokens[i].password
       /\ rows[i].live => tokens[i].live

LEMMA RowsAreTokens ==
  ASSUME tokens \in Seq(Token)
  PROVE  \A i \in Rows : tokens[i] \in Token
  BY DEF Rows

LEMMA RevokeKeeps ==
  ASSUME tokens \in Seq(Token), NEW i \in Rows
  PROVE  RowsKept(Revoke(tokens, i)) /\ ~Revoke(tokens, i)[i].live
<1> DEFINE entry == [tokens[i] EXCEPT !.live = FALSE]
<1>1. tokens[i] \in Token
  BY DEF Rows
<1>2. /\ entry \in Token /\ ~entry.live
      /\ entry.login = tokens[i].login /\ entry.password = tokens[i].password
  BY <1>1 DEF Token
<1>3. Revoke(tokens, i) = [tokens EXCEPT ![i] = entry]
  BY Zenon DEF Revoke
<1> HIDE DEF entry
<1>4. [tokens EXCEPT ![i] = entry] \in Seq(Token)
  BY <1>2, ExceptSeq DEF Rows
<1>5. QED
  BY <1>2, <1>3, <1>4 DEF RowsKept, Rows

LEMMA RevokeAllKeeps ==
  ASSUME tokens \in Seq(Token)
  PROVE  RowsKept(RevokeAll(tokens)) /\ \A i \in Rows : ~RevokeAll(tokens)[i].live
<1> DEFINE entry(i) == [tokens[i] EXCEPT !.live = FALSE]
<1>0. \A i \in Rows : tokens[i] \in Token
  BY RowsAreTokens
<1>1. \A i \in Rows :
        /\ entry(i) \in Token /\ ~entry(i).live
        /\ entry(i).login = tokens[i].login /\ entry(i).password = tokens[i].password
  BY <1>0 DEF Token
<1>2. RevokeAll(tokens) = [i \in 1 .. Len(tokens) |-> entry(i)]
  BY DEF RevokeAll
<1> HIDE DEF entry
<1>3. RevokeAll(tokens) \in Seq(Token) /\ Rows = 1 .. Len(tokens)
  BY <1>1, <1>2 DEF Rows
<1>4. QED
  BY <1>1, <1>2, <1>3 DEF RowsKept

LEMMA IssueAdds ==
  ASSUME NEW rows, RowsKept(rows), NEW login \in Nat, password \in Nat, tokens \in Seq(Token)
  PROVE  /\ Issue(rows, login) \in Seq(Token)
         /\ DOMAIN Issue(rows, login) = Rows \cup {Len(tokens) + 1}
         /\ Len(tokens) + 1 \notin Rows
         /\ \A i \in Rows : Issue(rows, login)[i] = rows[i]
         /\ Issue(rows, login)[Len(tokens) + 1].login = login
         /\ Issue(rows, login)[Len(tokens) + 1].password = password
<1> DEFINE entry == [login |-> login, password |-> password, live |-> TRUE]
<1>1. entry \in Token /\ entry.login = login /\ entry.password = password
  BY DEF Token
<1> HIDE DEF entry
<1>2. rows \in Seq(Token) /\ Len(rows) = Len(tokens) /\ Rows = 1 .. Len(tokens)
  BY DEF RowsKept, Rows
<1>3. Issue(rows, login) = Append(rows, entry)
  BY DEF Issue, entry
<1>4. QED
  BY <1>1, <1>2, <1>3

-----------------------------------------------------------------------------
(* All that a step does to the rows: sessions end, all of them, some or    *)
(* none; a login opens one; a refresh renews one that works.               *)
SomeEnd ==
  /\ RowsKept(tokens') /\ logins' = logins
  /\ password' = password \/ dbErrors' # 0
  /\ locked' => locked

AllEnd ==
  /\ RowsKept(tokens') /\ logins' = logins
  /\ \A i \in Rows : ~tokens'[i].live

OneOpens ==
  /\ logins' = logins + 1
  /\ tokens' = Issue(tokens, logins + 1)
  /\ ~locked' /\ password' = password

OneIsRenewed == \E i \in Rows :
  /\ tokens[i].live
  /\ tokens' = Issue(Revoke(tokens, i), tokens[i].login)
  /\ UNCHANGED <<logins, locked, password>>

LEMMA StepsOnRows ==
  ASSUME TypeOK, CallsHaveRows, [Next]_vars
  PROVE  /\ SomeEnd \/ AllEnd \/ OneOpens \/ OneIsRenewed
         /\ dbErrors' \in {dbErrors, dbErrors + 1}
<1> USE DEF Completes, Raises
<1>1. tokens \in Seq(Token) /\ dbErrors \in Nat
  BY BoundsAreNat DEF TypeOK
<1>2. RowsKept(tokens)
  BY <1>1 DEF RowsKept, Rows
<1>3. ASSUME UNCHANGED <<tokens, logins, locked, password, dbErrors>>
      PROVE  SomeEnd /\ dbErrors' \in {dbErrors, dbErrors + 1}
  BY <1>2, <1>3 DEF SomeEnd
<1>4. ASSUME NEW d \in Devices, Login(d) \/ LogoutServe(d) \/ LogoutEnds(d)
      PROVE  /\ SomeEnd \/ OneOpens
             /\ dbErrors' \in {dbErrors, dbErrors + 1}
  <2>1. CASE Login(d)
    BY <1>1, <1>2, <2>1 DEF Login, SomeEnd, OneOpens
  <2>2. CASE LogoutServe(d)
    <3>1. store[d] \in Rows /\ tokens' = Revoke(tokens, store[d])
          /\ UNCHANGED <<logins, locked, password, dbErrors>>
      BY <2>2 DEF LogoutServe, TypeOK, history
    <3>2. QED
      BY <1>1, <3>1, RevokeKeeps DEF SomeEnd
  <2>3. CASE LogoutEnds(d)
    BY <1>3, <2>3 DEF LogoutEnds, server, history
  <2>4. QED
    BY <1>4, <2>1, <2>2, <2>3
<1>5. ASSUME NEW c \in Calls, Refresh(c)
      PROVE  /\ SomeEnd \/ OneIsRenewed
             /\ dbErrors' \in {dbErrors, dbErrors + 1}
  <2>1. call[c].token \in Rows
    BY <1>5 DEF Refresh, At, CallsHaveRows
  <2>2. CASE /\ tokens[call[c].token].live /\ UNCHANGED <<dbErrors, logins, locked, password>>
             /\ tokens' = Issue(Revoke(tokens, call[c].token), tokens[call[c].token].login)
    BY <2>1, <2>2 DEF OneIsRenewed
  <2>3. CASE Raises /\ tokens' = Revoke(tokens, call[c].token)
    BY <1>1, <1>5, <2>1, <2>3, RevokeKeeps DEF Refresh, SomeEnd
  <2>4. QED
    BY <1>5, <2>1, <2>2, <2>3 DEF Refresh
<1>6. ASSUME NEW c \in Calls,
             \/ Ask(c) \/ Serve(c) \/ Denied(c) \/ RefuseRefresh(c)
             \/ Granted(c) \/ Refused(c) \/ Lose(c)
      PROVE  UNCHANGED <<tokens, logins, locked, password, dbErrors>>
  BY <1>6 DEF Ask, Serve, Denied, RefuseRefresh, Granted, Refused, Lose, server, history
<1>7. ASSUME WrongPassword
      PROVE  /\ SomeEnd \/ AllEnd
             /\ dbErrors' \in {dbErrors, dbErrors + 1}
  <2>1. CASE failures + 1 < MaxFailures
    BY <1>1, <1>2, <1>7, <2>1 DEF WrongPassword, SomeEnd
  <2>2. CASE ~(failures + 1 < MaxFailures)
    BY <1>1, <1>7, <2>2, RevokeAllKeeps DEF WrongPassword, AllEnd
  <2>3. QED
    BY <2>1, <2>2
<1>8. ASSUME NewPassword
      PROVE  /\ SomeEnd \/ AllEnd
             /\ dbErrors' \in {dbErrors, dbErrors + 1}
  <2>1. CASE tokens' = RevokeAll(tokens)
    BY <1>1, <1>8, <2>1, RevokeAllKeeps DEF NewPassword, AllEnd
  <2>2. CASE tokens' = tokens /\ dbErrors' = dbErrors + 1
    BY <1>1, <1>2, <1>8, <2>2 DEF NewPassword, SomeEnd
  <2>3. QED
    BY <1>8, <2>1, <2>2 DEF NewPassword
<1>9. ASSUME LockEnds
      PROVE  SomeEnd /\ dbErrors' \in {dbErrors, dbErrors + 1}
  BY <1>1, <1>2, <1>9 DEF LockEnds, SomeEnd, history
<1>10. ASSUME \/ \E ban \in BOOLEAN : SetStatus(ban)
              \/ \E i \in Rows : AccessExpires(i) \/ RefreshLapses(i)
              \/ UNCHANGED vars
       PROVE  UNCHANGED <<tokens, logins, locked, password, dbErrors>>
  BY <1>10 DEF SetStatus, AccessExpires, RefreshLapses, vars, server, history
<1>11. QED
  BY <1>3, <1>4, <1>5, <1>6, <1>7, <1>8, <1>9, <1>10 DEF Next, CallStep

(* The rows stay rows, and there may be one more.                          *)
LEMMA RowsStayRows ==
  ASSUME TypeOK, SomeEnd \/ AllEnd \/ OneOpens \/ OneIsRenewed
  PROVE  tokens' \in Seq(Token) /\ Rows \subseteq Rows'
<1>1. tokens \in Seq(Token) /\ password \in Nat /\ logins \in Nat
  BY BoundsAreNat DEF TypeOK
<1>2. CASE SomeEnd \/ AllEnd
  BY <1>2 DEF SomeEnd, AllEnd, RowsKept, Rows
<1>3. CASE OneOpens
  <2>1. RowsKept(tokens)
    BY <1>1 DEF RowsKept, Rows
  <2>2. QED
    BY <1>1, <1>3, <2>1, IssueAdds DEF OneOpens, Rows
<1>4. CASE OneIsRenewed
  <2>1. PICK i \in Rows : tokens' = Issue(Revoke(tokens, i), tokens[i].login)
    BY <1>4 DEF OneIsRenewed
  <2>2. tokens[i] \in Token /\ tokens[i].login \in Nat
    BY <1>1, RowsAreTokens DEF Token
  <2>3. QED
    BY <1>1, <2>1, <2>2, RevokeKeeps, IssueAdds DEF Rows
<1>5. QED
  BY <1>2, <1>3, <1>4

-----------------------------------------------------------------------------
LEMMA SafetyStep ==
  ASSUME SessionInv, [Next]_vars
  PROVE  LoginsAreCounted' /\ OneTokenPerLogin' /\ LockedIsLoggedOut'
         /\ NewPasswordEndsSessions'
<1> USE DEF LoginsAreCounted, OneTokenPerLogin, LockedIsLoggedOut,
            NewPasswordEndsSessions, Live
<1>1. /\ tokens \in Seq(Token) /\ password \in Nat /\ logins \in Nat
      /\ dbErrors \in Nat
      /\ \A i \in Rows : tokens[i].login \in Nat
  BY BoundsAreNat, RowsAreTokens DEF SessionInv, TypeOK, Token
<1>2. /\ SomeEnd \/ AllEnd \/ OneOpens \/ OneIsRenewed
      /\ dbErrors' = 0 => dbErrors = 0
  BY <1>1, StepsOnRows DEF SessionInv
<1>3. CASE SomeEnd
  <2>1. RowsKept(tokens') /\ Rows' = Rows /\ logins' = logins
    BY <1>3 DEF SomeEnd, RowsKept, Rows
  <2>2. LoginsAreCounted' /\ OneTokenPerLogin' /\ LockedIsLoggedOut'
    BY <1>3, <2>1 DEF SessionInv, SomeEnd, RowsKept
  <2>3. NewPasswordEndsSessions'
    BY <1>2, <1>3, <2>1 DEF SessionInv, SomeEnd, RowsKept
  <2>4. QED
    BY <2>2, <2>3
<1>4. CASE AllEnd
  <2>1. RowsKept(tokens') /\ Rows' = Rows /\ logins' = logins
    BY <1>4 DEF AllEnd, RowsKept, Rows
  <2>2. QED
    BY <1>4, <2>1 DEF SessionInv, AllEnd, RowsKept
<1>5. CASE OneOpens
  <2>1. RowsKept(tokens)
    BY <1>1 DEF RowsKept, Rows
  <2> DEFINE new == Len(tokens) + 1
  <2>2. /\ Rows' = Rows \cup {new} /\ new \notin Rows
        /\ \A i \in Rows : tokens'[i] = tokens[i]
        /\ tokens'[new].login = logins + 1 /\ tokens'[new].password = password
    <3>1. logins + 1 \in Nat /\ tokens' = Issue(tokens, logins + 1) /\ Rows' = DOMAIN tokens'
      BY <1>1, <1>5 DEF OneOpens, Rows
    <3>2. QED
      BY <1>1, <2>1, <3>1, IssueAdds
  <2> HIDE DEF new
  <2>3. LoginsAreCounted' /\ OneTokenPerLogin'
    BY <1>1, <1>5, <2>2 DEF SessionInv, OneOpens
  <2>4. LockedIsLoggedOut' /\ NewPasswordEndsSessions'
    BY <1>2, <1>5, <2>2 DEF SessionInv, OneOpens
  <2>5. QED
    BY <2>3, <2>4
<1>6. CASE OneIsRenewed
  <2>1. PICK k \in Rows :
          /\ tokens[k].live
          /\ tokens' = Issue(Revoke(tokens, k), tokens[k].login)
          /\ UNCHANGED <<logins, locked, password>>
    BY <1>6 DEF OneIsRenewed
  <2> DEFINE new == Len(tokens) + 1
             rows == Revoke(tokens, k)
  <2>2. RowsKept(rows) /\ ~rows[k].live
    BY <1>1, RevokeKeeps
  <2>3. /\ Rows' = Rows \cup {new} /\ new \notin Rows
        /\ \A i \in Rows : tokens'[i] = rows[i]
        /\ tokens'[new].login = tokens[k].login /\ tokens'[new].password = password
    BY <1>1, <2>1, <2>2, IssueAdds DEF Rows
  <2> HIDE DEF new, rows
  <2>4. LoginsAreCounted' /\ OneTokenPerLogin'
    BY <1>1, <2>1, <2>2, <2>3 DEF SessionInv, RowsKept
  <2>5. LockedIsLoggedOut' /\ NewPasswordEndsSessions'
    BY <1>2, <2>1, <2>2, <2>3 DEF SessionInv, RowsKept
  <2>6. QED
    BY <2>4, <2>5
<1>7. QED
  BY <1>2, <1>3, <1>4, <1>5, <1>6

-----------------------------------------------------------------------------
(* The calls of the pages.                                                 *)
CallsTyped ==
  /\ call \in [Calls -> [at : Points, token : {0} \cup Rows, retry : BOOLEAN]]
  /\ CallsHaveRows

LEMMA CallMoves ==
  ASSUME CallsTyped, Rows \subseteq Rows', NEW c \in Calls, NEW point \in Points,
         NEW token \in {0} \cup Rows', NEW retry \in BOOLEAN,
         point \in {"refreshing", "granted"} => token \in Rows',
         Moves(c, point, token, retry)
  PROVE  CallsTyped'
<1> DEFINE moved == [at |-> point, token |-> token, retry |-> retry]
<1>1. /\ moved \in [at : Points, token : {0} \cup Rows', retry : BOOLEAN]
      /\ moved.at = point /\ moved.token = token
  OBVIOUS
<1>2. call' = [call EXCEPT ![c] = moved]
  BY DEF Moves
<1> HIDE DEF moved
<1>3. \A x \in [at : Points, token : {0} \cup Rows, retry : BOOLEAN] :
        x \in [at : Points, token : {0} \cup Rows', retry : BOOLEAN]
  OBVIOUS
<1>4. call' \in [Calls -> [at : Points, token : {0} \cup Rows', retry : BOOLEAN]]
  BY <1>1, <1>2, <1>3 DEF CallsTyped
<1>5. CallsHaveRows'
  BY <1>1, <1>2 DEF CallsTyped, CallsHaveRows
<1>6. QED
  BY <1>4, <1>5 DEF CallsTyped

LEMMA CallsEndOrStay ==
  ASSUME CallsTyped, Rows \subseteq Rows',
         \/ UNCHANGED call
         \/ \E c \in Calls : Ends(c)
         \/ \E d \in Devices : call' = Reloaded(d)
  PROVE  CallsTyped'
<1>1. /\ NoCall \in [at : Points, token : {0} \cup Rows', retry : BOOLEAN]
      /\ NoCall.at = "idle"
  BY DEF NoCall, Points
<1>2. \A x \in [at : Points, token : {0} \cup Rows, retry : BOOLEAN] :
        x \in [at : Points, token : {0} \cup Rows', retry : BOOLEAN]
  OBVIOUS
<1>3. /\ DOMAIN call' = Calls /\ call' = [c \in Calls |-> call'[c]]
      /\ \A c \in Calls : call'[c] = call[c] \/ call'[c] = NoCall
  BY DEF CallsTyped, Ends, Reloaded
<1>4. call' \in [Calls -> [at : Points, token : {0} \cup Rows', retry : BOOLEAN]]
  BY <1>1, <1>2, <1>3 DEF CallsTyped
<1>5. CallsHaveRows'
  BY <1>1, <1>3 DEF CallsTyped, CallsHaveRows
<1>6. QED
  BY <1>4, <1>5 DEF CallsTyped

(* What a step does to the browsers.                                       *)
LEMMA ClientStep ==
  ASSUME SessionInv, [Next]_vars
  PROVE  /\ store' \in [Devices -> {0} \cup Rows']
         /\ leaving' \in [Devices -> BOOLEAN]
         /\ CallsTyped'
<1>1. /\ tokens \in Seq(Token)
      /\ store \in [Devices -> {0} \cup Rows] /\ leaving \in [Devices -> BOOLEAN]
      /\ CallsTyped /\ TypeOK /\ CallsHaveRows
      /\ \A c \in Calls : /\ PageOf[c] \in Devices /\ call[c].token \in {0} \cup Rows
                          /\ call[c].retry \in BOOLEAN
  BY PagesAssumption DEF SessionInv, TypeOK, CallsTyped
<1>2. Rows \subseteq Rows'
  BY <1>1, StepsOnRows, RowsStayRows
<1> DEFINE Q == /\ store' \in [Devices -> {0} \cup Rows']
                /\ leaving' \in [Devices -> BOOLEAN]
                /\ CallsTyped'
<1>3. ASSUME UNCHANGED client PROVE Q
  BY <1>1, <1>2, <1>3, CallsEndOrStay DEF client
<1>4. ASSUME NEW d \in Devices, Login(d) \/ LogoutServe(d) \/ LogoutEnds(d)
      PROVE  Q
  <2>1. call' = Reloaded(d) \/ UNCHANGED call
    BY <1>4 DEF Login, LogoutServe, LogoutEnds
  <2>2. CallsTyped'
    BY <1>1, <1>2, <2>1, CallsEndOrStay
  <2>3. CASE Login(d)
    <3>1. CASE UNCHANGED store
      BY <1>1, <1>2, <2>2, <2>3, <3>1 DEF Login
    <3>2. CASE /\ tokens' = Issue(tokens, logins + 1)
               /\ store' = [store EXCEPT ![d] = Len(tokens) + 1]
      <4>1. /\ RowsKept(tokens) /\ logins + 1 \in Nat /\ password \in Nat
            /\ Rows' = DOMAIN tokens'
        BY <1>1, BoundsAreNat DEF TypeOK, RowsKept, Rows
      <4>2. Len(tokens) + 1 \in Rows'
        BY <1>1, <3>2, <4>1, IssueAdds
      <4>3. QED
        BY <1>1, <1>2, <2>2, <2>3, <3>2, <4>2 DEF Login
    <3>3. QED
      BY <2>3, <3>1, <3>2 DEF Login
  <2>4. CASE LogoutServe(d)
    BY <1>1, <1>2, <2>2, <2>4 DEF LogoutServe
  <2>5. CASE LogoutEnds(d)
    BY <1>1, <1>2, <2>2, <2>5 DEF LogoutEnds
  <2>6. QED
    BY <1>4, <2>3, <2>4, <2>5
<1>5. ASSUME NEW c \in Calls, Ask(c) \/ Serve(c) \/ Denied(c)
      PROVE  Q
  <2>1. leaving' = leaving
    BY <1>5 DEF Ask, Serve, Denied
  <2>2. store' = store \/ store' = [store EXCEPT ![PageOf[c]] = 0]
    BY <1>5 DEF Ask, Serve, Denied
  <2>3. \/ \E d \in Calls : Ends(d)
        \/ Moves(c, "asked", store[PageOf[c]], TRUE)
        \/ Moves(c, "denied", 0, call[c].retry)
        \/ store[PageOf[c]] # 0 /\ Moves(c, "refreshing", store[PageOf[c]], FALSE)
    BY <1>5 DEF Ask, Serve, Denied
  <2>4. store[PageOf[c]] \in {0} \cup Rows' /\ (store[PageOf[c]] # 0 => store[PageOf[c]] \in Rows')
    BY <1>1, <1>2
  <2>5. CallsTyped'
    BY <1>1, <1>2, <2>3, <2>4, CallsEndOrStay, CallMoves DEF Points
  <2>6. QED
    BY <1>1, <1>2, <2>1, <2>2, <2>5
<1>6. ASSUME NEW c \in Calls, Refresh(c) \/ RefuseRefresh(c)
      PROVE  Q
  <2>1. leaving' = leaving /\ store' = store
    BY <1>6 DEF Refresh, RefuseRefresh
  <2>2. call[c].token \in Rows
    BY <1>1, <1>6 DEF Refresh, RefuseRefresh, At, CallsHaveRows
  <2>3. \/ Moves(c, "refused", 0, FALSE)
        \/ /\ tokens' = Issue(Revoke(tokens, call[c].token), tokens[call[c].token].login)
           /\ Moves(c, "granted", Len(tokens) + 1, FALSE)
    BY <1>6 DEF Refresh, RefuseRefresh
  <2>4. CASE Moves(c, "refused", 0, FALSE)
    BY <1>1, <1>2, <2>1, <2>4, CallMoves DEF Points
  <2>5. CASE /\ tokens' = Issue(Revoke(tokens, call[c].token), tokens[call[c].token].login)
             /\ Moves(c, "granted", Len(tokens) + 1, FALSE)
    <3>1. /\ RowsKept(Revoke(tokens, call[c].token)) /\ tokens[call[c].token].login \in Nat
          /\ password \in Nat /\ Rows' = DOMAIN tokens'
      BY <1>1, <2>2, RevokeKeeps, RowsAreTokens, BoundsAreNat DEF TypeOK, Token, Rows
    <3>2. Len(tokens) + 1 \in Rows'
      BY <1>1, <2>5, <3>1, IssueAdds
    <3>3. CallsTyped'
      BY <1>1, <1>2, <2>5, <3>2, CallMoves DEF Points
    <3>4. QED
      BY <1>1, <1>2, <2>1, <3>3
  <2>6. QED
    BY <2>3, <2>4, <2>5
<1>7. ASSUME NEW c \in Calls, Granted(c)
      PROVE  Q
  <2>1. call[c].token \in Rows'
    BY <1>1, <1>2, <1>7 DEF Granted, At, CallsHaveRows
  <2>2. CallsTyped'
    BY <1>1, <1>2, <1>7, <2>1, CallMoves DEF Granted, Points
  <2>3. QED
    BY <1>1, <1>2, <1>7, <2>1, <2>2 DEF Granted
<1>8. ASSUME NEW c \in Calls, Refused(c) \/ Lose(c)
      PROVE  Q
  <2>1. CallsTyped'
    BY <1>1, <1>2, <1>8, CallsEndOrStay DEF Refused, Lose
  <2>2. QED
    BY <1>1, <1>2, <1>8, <2>1 DEF Refused, Lose
<1>9. ASSUME \/ WrongPassword \/ LockEnds \/ NewPassword
             \/ \E ban \in BOOLEAN : SetStatus(ban)
             \/ \E i \in Rows : AccessExpires(i) \/ RefreshLapses(i)
             \/ UNCHANGED vars
      PROVE  UNCHANGED client
  BY <1>9 DEF WrongPassword, LockEnds, NewPassword, SetStatus, AccessExpires,
              RefreshLapses, vars
<1>10. QED
  BY <1>3, <1>4, <1>5, <1>6, <1>7, <1>8, <1>9 DEF Next, CallStep

(* What a step does to the other columns, and to the bounds.               *)
LEMMA ServerStep ==
  ASSUME SessionInv, [Next]_vars
  PROVE  /\ expired' \subseteq Rows' /\ lapsed' \subseteq Rows'
         /\ banned' \in BOOLEAN /\ locked' \in BOOLEAN
         /\ failures' \in 0 .. MaxFailures - 1 /\ password' \in 0 .. MaxPasswords
         /\ logins' \in 0 .. MaxLogins
         /\ losses' \in 0 .. MaxFaults /\ dbErrors' \in 0 .. MaxFaults
<1> USE BoundsAreNat DEF Completes, Raises
<1>1. /\ expired \subseteq Rows /\ lapsed \subseteq Rows
      /\ banned \in BOOLEAN /\ locked \in BOOLEAN
      /\ failures \in 0 .. MaxFailures - 1 /\ password \in 0 .. MaxPasswords
      /\ logins \in 0 .. MaxLogins
      /\ losses \in 0 .. MaxFaults /\ dbErrors \in 0 .. MaxFaults
  BY DEF SessionInv, TypeOK
<1>2. Rows \subseteq Rows'
  BY StepsOnRows, RowsStayRows DEF SessionInv
<1> DEFINE Q == /\ expired' \subseteq Rows' /\ lapsed' \subseteq Rows'
                /\ banned' \in BOOLEAN /\ locked' \in BOOLEAN
                /\ failures' \in 0 .. MaxFailures - 1 /\ password' \in 0 .. MaxPasswords
                /\ logins' \in 0 .. MaxLogins
                /\ losses' \in 0 .. MaxFaults /\ dbErrors' \in 0 .. MaxFaults
<1>3. ASSUME NEW d \in Devices, Login(d) \/ LogoutServe(d) \/ LogoutEnds(d)
      PROVE  Q
  <2>1. CASE Login(d)
    BY <1>1, <1>2, <2>1 DEF Login
  <2>2. CASE LogoutServe(d) \/ LogoutEnds(d)
    BY <1>1, <1>2, <2>2 DEF LogoutServe, LogoutEnds, server, history
  <2>3. QED
    BY <1>3, <2>1, <2>2
<1>4. ASSUME NEW c \in Calls, Ask(c) \/ Lose(c) \/ CallStep(c)
      PROVE  Q
  <2>1. CASE Refresh(c)
    <3>1. /\ UNCHANGED <<expired, lapsed, banned, failures, locked, password, logins, losses>>
          /\ \/ dbErrors' = dbErrors
             \/ losses + dbErrors < MaxFaults /\ dbErrors' = dbErrors + 1
      BY <2>1 DEF Refresh
    <3>2. QED
      BY <1>1, <1>2, <3>1
  <2>2. CASE Lose(c)
    BY <1>1, <1>2, <2>2 DEF Lose, server
  <2>3. CASE Ask(c) \/ Serve(c) \/ Denied(c) \/ RefuseRefresh(c) \/ Granted(c) \/ Refused(c)
    BY <1>1, <1>2, <2>3
    DEF Ask, Serve, Denied, RefuseRefresh, Granted, Refused, server, history
  <2>4. QED
    BY <1>4, <2>1, <2>2, <2>3 DEF CallStep
<1>5. CASE WrongPassword
  <2>1. CASE failures + 1 < MaxFailures
    BY <1>1, <1>2, <1>5, <2>1 DEF WrongPassword
  <2>2. CASE ~(failures + 1 < MaxFailures)
    <3>1. /\ UNCHANGED <<expired, lapsed, banned, password, logins, losses>>
          /\ \/ dbErrors' = dbErrors /\ failures' = 0 /\ locked' = TRUE
             \/ /\ losses + dbErrors < MaxFaults /\ dbErrors' = dbErrors + 1
                /\ UNCHANGED <<failures, locked>>
      BY <1>5, <2>2 DEF WrongPassword
    <3>2. locked' \in BOOLEAN
      BY <1>1, <3>1, Zenon
    <3>3. failures' \in 0 .. MaxFailures - 1 /\ dbErrors' \in 0 .. MaxFaults
      BY <1>1, <3>1
    <3>4. QED
      BY <1>1, <1>2, <3>1, <3>2, <3>3
  <2>3. QED
    BY <2>1, <2>2
<1>6. CASE LockEnds \/ \E ban \in BOOLEAN : SetStatus(ban)
  BY <1>1, <1>2, <1>6 DEF LockEnds, SetStatus, history
<1>7. CASE NewPassword
  BY <1>1, <1>2, <1>7 DEF NewPassword
<1>8. CASE \E i \in Rows : AccessExpires(i) \/ RefreshLapses(i)
  BY <1>1, <1>2, <1>8 DEF AccessExpires, RefreshLapses, history
<1>9. CASE UNCHANGED vars
  BY <1>1, <1>2, <1>9 DEF vars, server, history
<1>10. QED
  BY <1>3, <1>4, <1>5, <1>6, <1>7, <1>8, <1>9 DEF Next

-----------------------------------------------------------------------------
LEMMA SessionInitially == Init => SessionInv
<1> SUFFICES ASSUME Init PROVE SessionInv
  OBVIOUS
<1>1. TypeOK
  <2>1. tokens = << >> /\ tokens \in Seq(Token) /\ Rows = {}
    BY DEF Init, Rows
  <2>2. NoCall \in [at : Points, token : {0} \cup Rows, retry : BOOLEAN]
    BY DEF NoCall, Points
  <2>3. /\ store \in [Devices -> {0} \cup Rows] /\ leaving \in [Devices -> BOOLEAN]
        /\ call \in [Calls -> [at : Points, token : {0} \cup Rows, retry : BOOLEAN]]
    BY <2>2 DEF Init
  <2>4. /\ failures \in 0 .. MaxFailures - 1 /\ password \in 0 .. MaxPasswords
        /\ logins \in 0 .. MaxLogins
        /\ losses \in 0 .. MaxFaults /\ dbErrors \in 0 .. MaxFaults
    BY BoundsAreNat DEF Init
  <2>5. banned \in BOOLEAN /\ locked \in BOOLEAN /\ expired = {} /\ lapsed = {}
    BY Zenon DEF Init
  <2>6. QED
    BY <2>1, <2>3, <2>4, <2>5 DEF TypeOK
<1>2. Rows = {} /\ ~locked /\ \A c \in Calls : call[c].at = "idle"
  BY DEF Init, Rows, NoCall
<1>3. QED
  BY <1>1, <1>2 DEF SessionInv, CallsHaveRows, LoginsAreCounted, OneTokenPerLogin,
                    LockedIsLoggedOut, NewPasswordEndsSessions

LEMMA SessionStep == SessionInv /\ [Next]_vars => SessionInv'
<1> SUFFICES ASSUME SessionInv, [Next]_vars PROVE SessionInv'
  OBVIOUS
<1>1. tokens' \in Seq(Token)
  BY StepsOnRows, RowsStayRows DEF SessionInv
<1>2. TypeOK' /\ CallsHaveRows'
  BY <1>1, ClientStep, ServerStep DEF TypeOK, CallsTyped
<1>3. QED
  BY <1>2, SafetyStep DEF SessionInv

(* The rows, tokens and calls are what they are said to be.                *)
THEOREM SessionsTyped == Spec => []TypeOK
<1>1. SessionInv => TypeOK
  BY DEF SessionInv
<1>2. QED
  BY SessionInitially, SessionStep, <1>1, PTL DEF Spec

(* However many calls refresh a session at the same time, get lost or fail *)
(* half-way, one refresh token of it works, or none.                       *)
THEOREM RefreshTokensTakeTurns == Spec => []OneTokenPerLogin
<1>1. SessionInv => OneTokenPerLogin
  BY DEF SessionInv
<1>2. QED
  BY SessionInitially, SessionStep, <1>1, PTL DEF Spec

(* No session outlives the failed logins that lock the account, nor is one *)
(* opened or renewed while the lock lasts.                                 *)
THEOREM LocksEndSessions == Spec => []LockedIsLoggedOut
<1>1. SessionInv => LockedIsLoggedOut
  BY DEF SessionInv
<1>2. QED
  BY SessionInitially, SessionStep, <1>1, PTL DEF Spec

(* As long as no statement raised, no session works that was opened with   *)
(* a former password, however it was renewed since.                        *)
THEOREM PasswordsEndSessions == Spec => []NewPasswordEndsSessions
<1>1. SessionInv => NewPasswordEndsSessions
  BY DEF SessionInv
<1>2. QED
  BY SessionInitially, SessionStep, <1>1, PTL DEF Spec

LEMMA EndedStep ==
  ASSUME SessionInv, [Next]_vars, NEW n \in 1 .. logins,
         \A i \in Rows : tokens[i].login = n => ~Live(i)
  PROVE  \A i \in DOMAIN tokens' : tokens'[i].login = n => ~tokens'[i].live
<1> USE DEF Live
<1>1. /\ tokens \in Seq(Token) /\ password \in Nat /\ logins \in Nat
      /\ \A i \in Rows : tokens[i].login \in Nat
  BY BoundsAreNat, RowsAreTokens DEF SessionInv, TypeOK, Token
<1>2. CASE SomeEnd \/ AllEnd
  BY <1>2 DEF SomeEnd, AllEnd, RowsKept
<1>3. CASE OneOpens
  <2>1. RowsKept(tokens) /\ logins + 1 \in Nat /\ n # logins + 1
    BY <1>1 DEF RowsKept, Rows
  <2>2. QED
    BY <1>1, <1>3, <2>1, IssueAdds DEF OneOpens
<1>4. CASE OneIsRenewed
  <2>1. PICK k \in Rows :
          tokens[k].live /\ tokens' = Issue(Revoke(tokens, k), tokens[k].login)
    BY <1>4 DEF OneIsRenewed
  <2>2. RowsKept(Revoke(tokens, k))
    BY <1>1, RevokeKeeps
  <2>3. QED
    <3>1. tokens[k].login # n
      BY <2>1
    <3>2. /\ DOMAIN tokens' = Rows \cup {Len(tokens) + 1}
          /\ \A i \in Rows : tokens'[i] = Revoke(tokens, k)[i]
          /\ tokens'[Len(tokens) + 1].login = tokens[k].login
      BY <1>1, <2>1, <2>2, IssueAdds
    <3>3. QED
      BY <2>2, <3>1, <3>2 DEF RowsKept
<1>5. QED
  BY <1>2, <1>3, <1>4, StepsOnRows DEF SessionInv

(* A session that has ended is not renewed by any call that was under way. *)
THEOREM EndedSessionsStayEnded == Spec => EndedStaysEnded
<1>1. SessionInv /\ [Next]_vars =>
        SessionInv' /\ (\A n \in 1 .. logins :
          (\A i \in Rows : tokens[i].login = n => ~Live(i)) =>
            \A i \in DOMAIN tokens' : tokens'[i].login = n => ~tokens'[i].live)
  BY SessionStep, EndedStep
<1>2. QED
  BY SessionInitially, <1>1, PTL DEF Spec, EndedStaysEnded
=============================================================================
