---------------------------- MODULE AccountProofs ----------------------------
(* What a parent's account promises: who gets into it, its address, its learners    *)
(* and the browsers in learner mode; and what the accounts of the staff do, and the  *)
(* support cases they work on.  Each is proved of its own module, for every value of *)
(* the constants; a variable two of them have stands for each one's own.             *)
EXTENDS ParentAccess, FiniteSetTheorems, TLAPS

SomeTime == MaxTime \in Nat /\ MaxTime >= 2 /\ IsFiniteSet(Keys)

Leaving    == [at : {"delete"}, browser : Browsers]
Deleting   == [at : {"deleting"}, browser : Browsers, time : 2..MaxTime]
Restoring  == [at : {"restore"}, key : Keys, expected : Nat \ {0}]
Resetting  == [at : {"reset", "forget"}, browser : Browsers, link : Links]
Works == Leaving \cup Deleting \cup Restoring \cup Resetting \cup {Idle}

Shaped == TypeOK /\ work \in [Procs -> Works]
Answers == {receipts[k] : k \in Restored}
Counted == profile.version = 1 + Cardinality(Restored)
\* What is spent stays so, and no session is of a time to come.
Lasting == (\A l \in spent : links[l] = "gone") /\ \A b \in Browsers : cookie[b] <= now
Numbered ==
  /\ \A k \in Keys : receipts[k] <= profile.version
  /\ Cardinality(Answers) = Cardinality(Restored)
  /\ profile.status = "deleted" => deleted = Cardinality(Restored) + 1
  /\ profile.status # "deleted" => deleted = Cardinality(Restored)
ShutOut == (\A b \in old : cookie[b] <= profile.revokedBefore) /\ ~late
ReadsNow(w) ==
  /\ w.at \in {"delete", "deleting"} => profile.status = "active"
  /\ w.at = "deleting" => \A b \in Browsers : cookie[b] <= w.time
  /\ w.at = "restore" => profile.status = "deleted" /\ profile.version = w.expected
  /\ w.at = "reset" => w.link \notin spent
InTurn ==
  calm => /\ \A p, q \in Procs : work[p] # Idle /\ work[q] # Idle => p = q
          /\ \A p \in Procs : ReadsNow(work[p])
          /\ Numbered /\ ShutOut

IInv == Shaped /\ Counted /\ Lasting /\ InTurn

LEMMA Kinds ==
  ASSUME NEW w \in Works
  PROVE  /\ w = Idle <=> w.at = "idle"
         /\ w.at = "delete" => w \in Leaving
         /\ w.at = "deleting" => w \in Deleting
         /\ w.at = "restore" => w \in Restoring
         /\ w.at \in {"reset", "forget"} => w \in Resetting
BY DEF Works, Idle, Leaving, Deleting, Restoring, Resetting

LEMMA Ends ==
  ASSUME IInv, NEW p \in Procs, Done(p)
  PROVE  /\ work' \in [Procs -> Works]
         /\ \A q \in Procs : work'[q] = IF q = p THEN Idle ELSE work[q]
BY DEF IInv, Shaped, Done, Works

LEMMA Alone ==
  ASSUME IInv, calm, NEW p \in Procs, work[p].at # "idle"
  PROVE  /\ \A q \in Procs : q # p => work[q] = Idle
         /\ ReadsNow(work[p]) /\ Numbered /\ ShutOut
<1>1. work[p] # Idle
  BY DEF Idle
<1> QED  BY <1>1 DEF IInv, InTurn

LEMMA AllOver ==
  ASSUME calm' => (\A q \in Procs : work'[q] = Idle) /\ Numbered' /\ ShutOut'
  PROVE  InTurn'
<1>1. ASSUME calm', NEW q \in Procs
      PROVE  ReadsNow(work[q])'
  <2>1. work'[q] = Idle
    BY <1>1
  <2> QED  BY <2>1 DEF ReadsNow, Idle
<1> QED  BY <1>1 DEF InTurn

\* The counts are of the profile and the receipts alone.
LEMMA CountsStay ==
  ASSUME IInv, UNCHANGED <<profile, receipts, deleted>>
  PROVE  Counted' /\ (Numbered => Numbered')
BY DEF IInv, Counted, Numbered, Restored, Answers

\* A step that leaves all but a request's start alone.
LEMMA ArriveStep ==
  ASSUME SomeTime, IInv, NEW p \in Procs, NEW w \in Works, w # Idle, Arrive(p, w),
         ReadsNow(w),
         UNCHANGED <<now, profile, cookie, old, links, spent, receipts, deleted, late>>
  PROVE  IInv'
<1>1. work \in [Procs -> Works] /\ calm \in BOOLEAN /\ work' = [work EXCEPT ![p] = w]
      /\ calm' = (calm /\ \A q \in Procs : work[q] = Idle)
  BY DEF IInv, Shaped, TypeOK, Arrive
<1>2. work' \in [Procs -> Works] /\ calm' \in BOOLEAN
      /\ \A q \in Procs : work'[q] = IF q = p THEN w ELSE work[q]
  BY <1>1
<1>3. Shaped' /\ Lasting'
  BY <1>2 DEF IInv, Shaped, TypeOK, Lasting
<1>4. Counted' /\ (Numbered => Numbered')
  BY CountsStay
<1>5. ASSUME calm'
      PROVE  (\A q \in Procs : work[q] = Idle) /\ Numbered /\ ShutOut
  BY <1>1, <1>5 DEF IInv, InTurn
<1>6. calm' => Numbered' /\ ShutOut'
  BY <1>4, <1>5 DEF ShutOut
<1>7. ASSUME calm', NEW q \in Procs
      PROVE  ReadsNow(work[q])'
  <2>1. CASE q = p
    <3>1. work'[q] = w
      BY <1>2, <1>7, <2>1
    <3> QED  BY <3>1 DEF ReadsNow
  <2>2. CASE q # p
    <3>1. work'[q] = Idle
      BY <1>2, <1>5, <1>7, <2>2
    <3> QED  BY <3>1 DEF ReadsNow, Idle
  <2> QED  BY <2>1, <2>2
<1>8. calm' => \A o, q \in Procs : work'[o] # Idle /\ work'[q] # Idle => o = q
  BY <1>2, <1>5
<1> QED  BY <1>3, <1>4, <1>6, <1>7, <1>8 DEF IInv, InTurn

LEMMA BeginStep ==
  ASSUME SomeTime, IInv, NEW p \in Procs, Begin(p)
  PROVE  IInv'
<1>1. ASSUME NEW b \in Browsers, DeleteRequest(p, b)
      PROVE  IInv'
  <2> DEFINE w == [at |-> "delete", browser |-> b]
  <2>1. w \in Works /\ w # Idle /\ ReadsNow(w)
    BY <1>1 DEF Works, Leaving, Idle, ReadsNow, DeleteRequest, LetIn
  <2>2. Arrive(p, w) /\ UNCHANGED <<now, profile, cookie, old, links, spent, receipts, deleted, late>>
    BY <1>1 DEF DeleteRequest
  <2> HIDE DEF w
  <2> QED  BY <2>1, <2>2, ArriveStep
<1>2. ASSUME NEW k \in Keys, NEW v \in 1..(Cardinality(Keys) + 1), RestoreRead(p, k, v)
      PROVE  IInv'
  <2> DEFINE w == [at |-> "restore", key |-> k, expected |-> v]
  <2>1. v \in Nat \ {0}
    BY FS_CardinalityType DEF SomeTime
  <2>2. w \in Works /\ w # Idle /\ ReadsNow(w)
    BY <1>2, <2>1 DEF Works, Restoring, Idle, ReadsNow, RestoreRead, Eligible, SameVersion
  <2>3. Arrive(p, w) /\ UNCHANGED <<now, profile, cookie, old, links, spent, receipts, deleted, late>>
    BY <1>2 DEF RestoreRead
  <2> HIDE DEF w
  <2> QED  BY <2>2, <2>3, ArriveStep
<1>3. ASSUME NEW b \in Browsers, NEW l \in Links, ResetRead(p, b, l)
      PROVE  IInv'
  <2>1. PICK at \in {"reset", "forget"} : at = IF links[l] = "live" THEN "reset" ELSE "forget"
    OBVIOUS
  <2> DEFINE w == [at |-> at, browser |-> b, link |-> l]
  <2>2. l \notin spent
    BY <1>3 DEF ResetRead, IInv, Lasting
  <2>3. w \in Works /\ w # Idle /\ ReadsNow(w)
    BY <2>2 DEF Works, Resetting, Idle, ReadsNow
  <2>4. Arrive(p, w) /\ UNCHANGED <<now, profile, cookie, old, links, spent, receipts, deleted, late>>
    BY <1>3, <2>1 DEF ResetRead
  <2> HIDE DEF w
  <2> QED  BY <2>3, <2>4, ArriveStep
<1> QED  BY <1>1, <1>2, <1>3 DEF Begin

-----------------------------------------------------------------------------
LEMMA SignInStep ==
  ASSUME SomeTime, IInv, NEW b \in Browsers, SignIn(b)
  PROVE  IInv'
<1>1. /\ cookie' = [cookie EXCEPT ![b] = IssuedAt] /\ old' = old \ {b}
      /\ calm' = (calm /\ \A q \in Procs : work[q] = Idle)
      /\ UNCHANGED <<work, now, profile, links, spent, receipts, deleted, late>>
  BY DEF SignIn, StartSession, AtOnce
<1>2. IssuedAt \in 0..now /\ now \in 0..MaxTime /\ cookie \in [Browsers -> 0..MaxTime]
  BY DEF IInv, Shaped, TypeOK, IssuedAt, SomeTime
<1>3. IssuedAt \in 0..MaxTime /\ IssuedAt <= now
  BY <1>2 DEF SomeTime
<1>4. cookie' \in [Browsers -> 0..MaxTime]
      /\ \A c \in Browsers : cookie'[c] = IF c = b THEN IssuedAt ELSE cookie[c]
  BY <1>1, <1>2, <1>3
<1>5. Shaped' /\ Lasting'
  BY <1>1, <1>3, <1>4 DEF IInv, Shaped, TypeOK, Lasting
<1>6. Counted' /\ (Numbered => Numbered')
  BY <1>1, CountsStay
<1>7. ASSUME calm'
      PROVE  (\A q \in Procs : work'[q] = Idle) /\ Numbered' /\ ShutOut'
  <2>1. (\A q \in Procs : work[q] = Idle) /\ Numbered /\ ShutOut
    BY <1>1, <1>7 DEF IInv, InTurn
  <2>2. ShutOut'
    BY <1>1, <1>4, <2>1 DEF ShutOut, IInv, Shaped, TypeOK
  <2> QED  BY <1>1, <1>6, <2>1, <2>2
<1> QED  BY <1>5, <1>6, <1>7, AllOver DEF IInv

\* Steps of the world, which may come while a request is under way.
LEMMA WorldStep ==
  ASSUME SomeTime, IInv, UNCHANGED <<profile, spent, receipts, work, deleted, late, calm>>,
         now' \in 2..MaxTime, now' >= now, cookie' \in [Browsers -> 0..MaxTime], old' \subseteq old,
         links' \in [Links -> {"none", "live", "expired", "gone"}],
         \A b \in Browsers : cookie'[b] <= cookie[b],
         \A l \in Links : links[l] = "gone" => links'[l] = "gone"
  PROVE  IInv'
<1>1. Shaped'
  BY DEF IInv, Shaped, TypeOK
<1>2. now \in Nat /\ now' \in Nat /\ cookie \in [Browsers -> Nat] /\ cookie' \in [Browsers -> Nat]
      /\ old \subseteq Browsers /\ spent \subseteq Links /\ profile.revokedBefore \in Nat
  BY DEF IInv, Shaped, TypeOK, Profiles, SomeTime
<1>3. Lasting'
  BY <1>2 DEF IInv, Lasting
<1>4. Counted' /\ (Numbered => Numbered')
  BY CountsStay
<1>5. ShutOut => ShutOut'
  BY <1>2 DEF ShutOut
<1>6. ASSUME NEW p \in Procs, ReadsNow(work[p])
      PROVE  ReadsNow(work[p])'
  <2>1. work[p] \in Works
    BY DEF IInv, Shaped
  <2> PICK w \in Works : w = work[p]
    BY <2>1
  <2>2. w.at = "deleting" => w.time \in Nat
    BY Kinds DEF Deleting, SomeTime
  <2>3. ReadsNow(w) /\ work'[p] = w
    BY <1>6
  <2> QED  BY <1>2, <2>2, <2>3 DEF ReadsNow
<1> QED  BY <1>1, <1>3, <1>4, <1>5, <1>6 DEF IInv, InTurn

LEMMA SignOutStep ==
  ASSUME SomeTime, IInv, NEW b \in Browsers, SignOut(b)
  PROVE  IInv'
<1>1. /\ cookie' = [cookie EXCEPT ![b] = 0] /\ old' = old \ {b}
      /\ UNCHANGED <<now, profile, links, spent, receipts, work, deleted, late, calm>>
  BY DEF SignOut, NoCookie
<1>2. cookie \in [Browsers -> 0..MaxTime] /\ now \in 2..MaxTime
      /\ links \in [Links -> {"none", "live", "expired", "gone"}]
  BY DEF IInv, Shaped, TypeOK
<1>3. cookie' \in [Browsers -> 0..MaxTime] /\ \A c \in Browsers : cookie'[c] <= cookie[c]
  BY <1>1, <1>2 DEF SomeTime
<1> QED  BY <1>1, <1>2, <1>3, WorldStep DEF SomeTime

LEMMA LinkStep ==
  ASSUME SomeTime, IInv, NEW l \in Links, CreatePasswordResetToken(l) \/ HourPasses(l)
  PROVE  IInv'
<1>1. /\ UNCHANGED <<now, profile, cookie, old, spent, receipts, work, deleted, late, calm>>
      /\ links[l] # "gone" /\ \E s \in {"live", "expired"} : links' = [links EXCEPT ![l] = s]
  BY DEF CreatePasswordResetToken, HourPasses
<1>2. cookie \in [Browsers -> 0..MaxTime] /\ now \in 2..MaxTime
      /\ links \in [Links -> {"none", "live", "expired", "gone"}]
  BY DEF IInv, Shaped, TypeOK
<1>3. links' \in [Links -> {"none", "live", "expired", "gone"}]
      /\ \A m \in Links : links[m] = "gone" => links'[m] = "gone"
  BY <1>1, <1>2
<1> QED  BY <1>1, <1>2, <1>3, WorldStep DEF SomeTime

LEMMA TickStep ==
  ASSUME SomeTime, IInv, Tick
  PROVE  IInv'
<1>1. now \in 2..MaxTime /\ cookie \in [Browsers -> 0..MaxTime]
      /\ links \in [Links -> {"none", "live", "expired", "gone"}]
  BY DEF IInv, Shaped, TypeOK
<1>2. now' \in 2..MaxTime /\ now' >= now
      /\ UNCHANGED <<profile, cookie, old, links, spent, receipts, work, deleted, late, calm>>
  BY <1>1 DEF Tick, SomeTime
<1> QED  BY <1>1, <1>2, WorldStep DEF SomeTime

-----------------------------------------------------------------------------
LEMMA DeleteBeginsStep ==
  ASSUME SomeTime, IInv, NEW p \in Procs, SoftDeleteBegins(p)
  PROVE  IInv'
<1> PICK w \in Works : w = work[p]
  BY DEF IInv, Shaped
<1>1. w.at = "delete" /\ w.browser \in Browsers /\ now \in 2..MaxTime
  BY Kinds DEF SoftDeleteBegins, Leaving, IInv, Shaped, TypeOK
<1> DEFINE v == [at |-> "deleting", browser |-> w.browser, time |-> now]
<1>2. v \in Works /\ v.at = "deleting" /\ v.time = now
  BY <1>1 DEF Works, Deleting
<1>3. /\ work' = [work EXCEPT ![p] = v]
      /\ UNCHANGED <<now, profile, cookie, old, links, spent, receipts, deleted, late, calm>>
  BY DEF SoftDeleteBegins
<1> HIDE DEF v
<1>4. work' \in [Procs -> Works] /\ \A q \in Procs : work'[q] = IF q = p THEN v ELSE work[q]
  BY <1>2, <1>3 DEF IInv, Shaped
<1>5. Shaped' /\ Lasting'
  BY <1>3, <1>4 DEF IInv, Shaped, TypeOK, Lasting
<1>6. Counted' /\ (Numbered => Numbered')
  BY <1>3, CountsStay
<1>7. ASSUME calm'
      PROVE  /\ \A o, q \in Procs : work'[o] # Idle /\ work'[q] # Idle => o = q
             /\ \A q \in Procs : ReadsNow(work[q])'
             /\ Numbered' /\ ShutOut'
  <2>1. /\ \A q \in Procs : q # p => work[q] = Idle
        /\ ReadsNow(w) /\ Numbered /\ ShutOut
    BY <1>1, <1>3, <1>7, Alone
  <2>2. \A q \in Procs : work'[q] = IF q = p THEN v ELSE Idle
    BY <1>4, <2>1
  <2>3. profile.status = "active"
    BY <1>1, <2>1 DEF ReadsNow
  <2>4. ASSUME NEW q \in Procs
        PROVE  ReadsNow(work[q])'
    <3>1. CASE q = p
      <4>1. work'[q] = v
        BY <2>2, <3>1
      <4> QED  BY <1>2, <1>3, <2>3, <4>1 DEF ReadsNow, IInv, Lasting
    <3>2. CASE q # p
      <4>1. work'[q] = Idle
        BY <2>2, <3>2
      <4> QED  BY <4>1 DEF ReadsNow, Idle
    <3> QED  BY <3>1, <3>2
  <2>5. ShutOut'
    BY <1>3, <2>1 DEF ShutOut
  <2> QED  BY <1>6, <2>1, <2>2, <2>4, <2>5
<1> QED  BY <1>5, <1>6, <1>7 DEF IInv, InTurn

LEMMA DeleteStep ==
  ASSUME SomeTime, IInv, NEW p \in Procs, SoftDeleteAccount(p)
  PROVE  IInv'
<1> PICK w \in Works : w = work[p]
  BY DEF IInv, Shaped
<1>1. w.at = "deleting" /\ w.browser \in Browsers /\ w.time \in 2..MaxTime
  BY Kinds DEF SoftDeleteAccount, Deleting
<1> PICK b \in Browsers : b = w.browser
  BY <1>1
<1> PICK account \in Profiles : account = profile
  BY DEF IInv, Shaped, TypeOK
<1> DEFINE gone == [account EXCEPT !.status = "deleted", !.revokedBefore = w.time]
<1>2. /\ profile' = gone /\ deleted' = deleted + 1 /\ cookie' = [cookie EXCEPT ![b] = 0]
      /\ old' = {c \in Browsers : cookie[c] # 0} \ {b}
      /\ UNCHANGED <<now, links, spent, receipts, late, calm>>
  BY DEF SoftDeleteAccount, NoCookie
<1>3. gone \in Profiles /\ gone.status = "deleted" /\ gone.revokedBefore = w.time
      /\ gone.version = account.version
  <2>1. w.time \in 0..MaxTime
    BY <1>1 DEF SomeTime
  <2> QED  BY <2>1 DEF Profiles
<1> HIDE DEF gone
<1>4. work' \in [Procs -> Works] /\ \A q \in Procs : work'[q] = IF q = p THEN Idle ELSE work[q]
  BY Ends DEF SoftDeleteAccount
<1>5. /\ cookie \in [Browsers -> 0..MaxTime] /\ cookie' \in [Browsers -> 0..MaxTime] /\ deleted \in Nat
      /\ now \in Nat /\ \A c \in Browsers : cookie'[c] = IF c = b THEN 0 ELSE cookie[c]
  BY <1>2 DEF IInv, Shaped, TypeOK, SomeTime
<1>6. Shaped'
  BY <1>2, <1>3, <1>4, <1>5 DEF IInv, Shaped, TypeOK
<1>7. Lasting'
  BY <1>2, <1>5 DEF IInv, Lasting
<1>8. Restored' = Restored /\ Answers' = Answers
  BY <1>2 DEF Restored, Answers
<1>9. Counted'
  BY <1>2, <1>3, <1>8 DEF IInv, Counted
<1>10. ASSUME calm'
       PROVE  (\A q \in Procs : work'[q] = Idle) /\ Numbered' /\ ShutOut'
  <2>1. /\ \A q \in Procs : q # p => work[q] = Idle
        /\ ReadsNow(w) /\ Numbered /\ ShutOut
    BY <1>1, <1>2, <1>10, Alone
  <2>2. account.status = "active" /\ \A c \in Browsers : cookie[c] <= w.time
    BY <1>1, <2>1 DEF ReadsNow
  <2>3. Numbered'
    BY <1>2, <1>3, <1>8, <2>1, <2>2 DEF Numbered
  <2>4. ShutOut'
    BY <1>2, <1>3, <1>5, <2>1, <2>2 DEF ShutOut
  <2> QED  BY <1>4, <2>1, <2>3, <2>4
<1> QED  BY <1>6, <1>7, <1>9, <1>10, AllOver DEF IInv

LEMMA RestoreStep ==
  ASSUME SomeTime, IInv, NEW p \in Procs, RestoreAccount(p)
  PROVE  IInv'
<1> PICK w \in Works : w = work[p]
  BY DEF IInv, Shaped
<1>1. w.at = "restore" /\ w.key \in Keys /\ w.expected \in Nat \ {0} /\ receipts[w.key] = 0
  BY Kinds DEF RestoreAccount, Restoring
<1> PICK k \in Keys : k = w.key
  BY <1>1
<1> PICK account \in Profiles : account = profile
  BY DEF IInv, Shaped, TypeOK
<1> DEFINE back == [account EXCEPT !.status = "active", !.version = @ + 1]
<1>2. /\ profile' = back /\ receipts' = [receipts EXCEPT ![k] = w.expected + 1]
      /\ UNCHANGED <<now, cookie, old, links, spent, deleted, late, calm>>
  BY DEF RestoreAccount
<1>3. back \in Profiles /\ back.status = "active" /\ back.revokedBefore = account.revokedBefore
      /\ back.version = account.version + 1 /\ account.version \in Nat
  <2>1. account.version \in Nat /\ account.version + 1 \in Nat
    BY DEF Profiles
  <2> QED  BY <2>1 DEF Profiles
<1> HIDE DEF back
<1>4. work' \in [Procs -> Works] /\ \A q \in Procs : work'[q] = IF q = p THEN Idle ELSE work[q]
  BY Ends DEF RestoreAccount
<1>5. /\ receipts \in [Keys -> Nat] /\ receipts' \in [Keys -> Nat]
      /\ \A j \in Keys : receipts'[j] = IF j = k THEN w.expected + 1 ELSE receipts[j]
  BY <1>1, <1>2 DEF IInv, Shaped, TypeOK
<1>6. Shaped' /\ Lasting'
  BY <1>2, <1>3, <1>4, <1>5 DEF IInv, Shaped, TypeOK, Lasting
<1>7. Restored' = Restored \cup {k} /\ k \notin Restored
  BY <1>1, <1>5 DEF Restored
<1>8. IsFiniteSet(Restored) /\ Cardinality(Restored) \in Nat
  BY FS_Subset, FS_CardinalityType DEF Restored, SomeTime
<1>9. Cardinality(Restored') = Cardinality(Restored) + 1
  BY <1>7, <1>8, FS_AddElement
<1>10. Counted'
  BY <1>2, <1>3, <1>8, <1>9 DEF IInv, Counted
<1>11. ASSUME calm'
       PROVE  (\A q \in Procs : work'[q] = Idle) /\ Numbered' /\ ShutOut'
  <2>1. /\ \A q \in Procs : q # p => work[q] = Idle
        /\ ReadsNow(w) /\ Numbered /\ ShutOut
    BY <1>1, <1>2, <1>11, Alone
  <2>2. account.status = "deleted" /\ account.version = w.expected
    BY <1>1, <2>1 DEF ReadsNow
  <2>3. \A j \in Keys : receipts[j] <= account.version /\ receipts'[j] <= account.version + 1
    BY <1>3, <1>5, <2>1, <2>2 DEF Numbered
  <2>4. Answers' = Answers \cup {account.version + 1} /\ account.version + 1 \notin Answers
    <3>1. account.version + 1 \notin Answers
      BY <1>3, <1>5, <2>3 DEF Answers, Restored
    <3>2. \A j \in Restored : j # k /\ receipts'[j] = receipts[j]
      BY <1>5, <1>7 DEF Restored
    <3>3. receipts'[k] = account.version + 1
      BY <1>5, <2>2
    <3> QED  BY <1>7, <3>1, <3>2, <3>3 DEF Answers
  <2>5. IsFiniteSet(Answers)
    <3> DEFINE answer == [j \in Restored |-> receipts[j]]
    <3>1. answer \in Surjection(Restored, Answers)
      BY DEF Surjection, Answers
    <3> QED  BY <1>8, <3>1, FS_Surjection
  <2>6. Cardinality(Answers') = Cardinality(Answers) + 1
    BY <2>4, <2>5, FS_AddElement
  <2>7. Numbered'
    BY <1>2, <1>3, <1>8, <1>9, <2>1, <2>2, <2>3, <2>6 DEF Numbered
  <2>8. ShutOut'
    BY <1>2, <1>3, <2>1 DEF ShutOut
  <2> QED  BY <1>4, <2>1, <2>7, <2>8
<1> QED  BY <1>6, <1>10, <1>11, AllOver DEF IInv

LEMMA ForgetStep ==
  ASSUME SomeTime, IInv, NEW p \in Procs, ForgetLink(p)
  PROVE  IInv'
<1>1. /\ work[p].at = "forget" /\ links' = [links EXCEPT ![work[p].link] = "gone"]
      /\ UNCHANGED <<now, profile, cookie, old, spent, receipts, deleted, late, calm>>
  BY DEF ForgetLink
<1>2. work' \in [Procs -> Works] /\ \A q \in Procs : work'[q] = IF q = p THEN Idle ELSE work[q]
  BY Ends DEF ForgetLink
<1>3. Shaped' /\ Lasting'
  BY <1>1, <1>2 DEF IInv, Shaped, TypeOK, Lasting
<1>4. Counted' /\ (Numbered => Numbered')
  BY <1>1, CountsStay
<1>5. ASSUME calm'
      PROVE  (\A q \in Procs : work'[q] = Idle) /\ Numbered' /\ ShutOut'
  <2>1. (\A q \in Procs : q # p => work[q] = Idle) /\ Numbered /\ ShutOut
    BY <1>1, <1>5, Alone
  <2> QED  BY <1>1, <1>2, <1>4, <2>1 DEF ShutOut
<1> QED  BY <1>3, <1>4, <1>5, AllOver DEF IInv

LEMMA ResetStep ==
  ASSUME SomeTime, IInv, NEW p \in Procs, ResetPassword(p)
  PROVE  IInv'
<1> PICK w \in Works : w = work[p]
  BY DEF IInv, Shaped
<1>1. w.at = "reset" /\ w.browser \in Browsers /\ w.link \in Links
  BY Kinds DEF ResetPassword, Resetting
<1> PICK b \in Browsers : b = w.browser
  BY <1>1
<1>2. /\ links' = [l \in Links |-> IF l \in Outstanding THEN "gone" ELSE links[l]]
      /\ late' = (late \/ w.link \in spent) /\ spent' = spent \cup Outstanding
      /\ cookie' = [cookie EXCEPT ![b] = IssuedAt] /\ old' = old \ {b}
      /\ UNCHANGED <<now, profile, receipts, deleted, calm>>
  BY DEF ResetPassword, EveryLink, StartSession
<1>3. work' \in [Procs -> Works] /\ \A q \in Procs : work'[q] = IF q = p THEN Idle ELSE work[q]
  BY Ends DEF ResetPassword
<1>4. now \in 0..MaxTime /\ cookie \in [Browsers -> 0..MaxTime]
      /\ links \in [Links -> {"none", "live", "expired", "gone"}] /\ spent \subseteq Links /\ late \in BOOLEAN
  BY DEF IInv, Shaped, TypeOK, SomeTime
<1>5. IssuedAt \in 0..MaxTime /\ IssuedAt <= now
  BY <1>4 DEF IssuedAt, SomeTime
<1>6. cookie' \in [Browsers -> 0..MaxTime]
      /\ \A c \in Browsers : cookie'[c] = IF c = b THEN IssuedAt ELSE cookie[c]
  BY <1>2, <1>4, <1>5
<1>7. links' \in [Links -> {"none", "live", "expired", "gone"}] /\ spent' \subseteq Links /\ late' \in BOOLEAN
  BY <1>2, <1>4 DEF Outstanding
<1>8. Shaped'
  BY <1>2, <1>3, <1>6, <1>7 DEF IInv, Shaped, TypeOK
<1>9. Lasting'
  BY <1>2, <1>4, <1>5, <1>6 DEF IInv, Lasting, Outstanding
<1>10. Counted' /\ (Numbered => Numbered')
  BY <1>2, CountsStay
<1>11. ASSUME calm'
       PROVE  (\A q \in Procs : work'[q] = Idle) /\ Numbered' /\ ShutOut'
  <2>1. /\ \A q \in Procs : q # p => work[q] = Idle
        /\ ReadsNow(w) /\ Numbered /\ ShutOut
    BY <1>1, <1>2, <1>11, Alone
  <2>2. ~late'
    BY <1>1, <1>2, <2>1 DEF ReadsNow, ShutOut
  <2>3. \A c \in old' : cookie'[c] <= profile'.revokedBefore
    BY <1>2, <1>6, <2>1 DEF ShutOut, IInv, Shaped, TypeOK
  <2> QED  BY <1>3, <1>10, <2>1, <2>2, <2>3 DEF ShutOut
<1> QED  BY <1>8, <1>9, <1>10, <1>11, AllOver DEF IInv

LEMMA AbandonStep ==
  ASSUME SomeTime, IInv, NEW p \in Procs, Abandon(p)
  PROVE  IInv'
<1>1. /\ work[p] # Idle /\ Done(p)
      /\ UNCHANGED <<now, profile, cookie, old, links, spent, receipts, deleted, late, calm>>
  BY DEF Abandon
<1>2. work' \in [Procs -> Works] /\ \A q \in Procs : work'[q] = IF q = p THEN Idle ELSE work[q]
  BY <1>1, Ends
<1>3. Shaped' /\ Lasting'
  BY <1>1, <1>2 DEF IInv, Shaped, TypeOK, Lasting
<1>4. Counted' /\ (Numbered => Numbered')
  BY <1>1, CountsStay
<1>5. ASSUME calm'
      PROVE  (\A q \in Procs : work'[q] = Idle) /\ Numbered' /\ ShutOut'
  <2>1. (\A q \in Procs : q # p => work[q] = Idle) /\ Numbered /\ ShutOut
    BY <1>1, <1>5 DEF IInv, InTurn
  <2> QED  BY <1>1, <1>2, <1>4, <2>1 DEF ShutOut
<1> QED  BY <1>3, <1>4, <1>5, AllOver DEF IInv

-----------------------------------------------------------------------------
LEMMA InitHolds ==
  ASSUME SomeTime, Init
  PROVE  IInv
<1>1. /\ now = 2 /\ profile = [status |-> "active", revokedBefore |-> 0, version |-> 1]
      /\ cookie = [b \in Browsers |-> 0] /\ old = {}
      /\ links = [l \in Links |-> "none"] /\ spent = {}
      /\ receipts = [k \in Keys |-> 0] /\ work = [p \in Procs |-> Idle]
      /\ deleted = 0 /\ late = FALSE /\ calm = TRUE
  BY DEF Init, NoCookie
<1>2. profile \in Profiles /\ now \in 2..MaxTime /\ 0 \in 0..MaxTime
  BY <1>1 DEF Profiles, SomeTime
<1>3. Shaped /\ Lasting
  <2>1. TypeOK
    <3>1. cookie \in [Browsers -> 0..MaxTime] /\ receipts \in [Keys -> Nat]
          /\ links \in [Links -> {"none", "live", "expired", "gone"}]
      BY <1>1, <1>2
    <3> QED  BY <1>1, <1>2, <3>1 DEF TypeOK
  <2>2. work \in [Procs -> Works]
    BY <1>1 DEF Works
  <2> QED  BY <1>1, <2>1, <2>2 DEF Shaped, Lasting
<1>4. Restored = {} /\ Answers = {} /\ Cardinality(Restored) = 0 /\ Cardinality(Answers) = 0
  <2>1. Restored = {}
    BY <1>1 DEF Restored
  <2>2. Answers = {}
    BY <2>1 DEF Answers
  <2> QED  BY <2>1, <2>2, FS_EmptySet
<1>5. Counted /\ Numbered /\ ShutOut
  BY <1>1, <1>4 DEF Counted, Numbered, ShutOut
<1>6. \A p \in Procs : ReadsNow(work[p])
  BY <1>1 DEF ReadsNow, Idle
<1> QED  BY <1>1, <1>3, <1>5, <1>6 DEF IInv, InTurn

LEMMA NextHolds ==
  ASSUME SomeTime, IInv, [Next]_vars
  PROVE  IInv'
<1>1. ASSUME NEW p \in Procs, Continue(p)
      PROVE  IInv'
  BY <1>1, DeleteBeginsStep, DeleteStep, RestoreStep, ForgetStep, ResetStep, AbandonStep DEF Continue
<1>2. CASE UNCHANGED vars
  <2>1. Shaped' /\ Lasting' /\ Counted'
    BY <1>2, CountsStay DEF vars, IInv, Shaped, TypeOK, Lasting
  <2>2. InTurn'
    BY <1>2 DEF vars, IInv, InTurn, ReadsNow, Numbered, Restored, Answers, ShutOut
  <2> QED  BY <2>1, <2>2 DEF IInv
<1> QED  BY <1>1, <1>2, BeginStep, SignInStep, SignOutStep, LinkStep, TickStep DEF Next

LEMMA IInvSuffices ==
  ASSUME IInv
  PROVE  AccessHolds
<1>1. RestorationsAreCounted
  <2>1. profile.version = 1 + Cardinality(Restored)
    BY DEF IInv, Counted
  <2>2. ASSUME calm
        PROVE  /\ Cardinality({receipts[k] : k \in Restored}) = Cardinality(Restored)
               /\ deleted = Cardinality(Restored) + IF profile.status = "deleted" THEN 1 ELSE 0
    <3>1. Numbered /\ deleted \in Nat
      BY <2>2 DEF IInv, InTurn, Shaped, TypeOK
    <3>2. CASE profile.status = "deleted"
      BY <3>1, <3>2 DEF Numbered, Answers
    <3>3. CASE profile.status # "deleted"
      <4>1. deleted = Cardinality(Restored) /\ deleted + 0 = deleted
        BY <3>1, <3>3 DEF Numbered
      <4> QED  BY <3>1, <3>3, <4>1 DEF Numbered, Answers
    <3> QED  BY <3>2, <3>3
  <2> QED  BY <2>1, <2>2 DEF RestorationsAreCounted
<1>2. OldAccessIsGone
  <2> SUFFICES ASSUME calm
               PROVE  (\A b \in old : ~LetIn(b)) /\ ~late
    BY DEF OldAccessIsGone
  <2>1. ShutOut
    BY DEF IInv, InTurn
  <2> QED  BY <2>1 DEF ShutOut, LetIn, RevokedSession
<1> QED  BY <1>1, <1>2 DEF AccessHolds

\* Of requests that follow each other no session from before a deletion gets in again, restorations are
\* counted and a reset spends every link (parent-profile.ts:57-90, restoration.ts:44-76,
\* users.ts:112-132), for every number of browsers, links and keys, and however long it lasts.
THEOREM AccessStays ==
  ASSUME SomeTime
  PROVE  Spec => []AccessHolds
<1>1. Spec => []IInv
  BY InitHolds, NextHolds, PTL DEF Spec
<1> QED  BY <1>1, IInvSuffices, PTL

-----------------------------------------------------------------------------
(* The address. *)
CONSTANTS Emails, Requests, MaxLinks
VARIABLES email, taken, change, archived, had

Email == INSTANCE ParentEmail

\* The instance counts as the library does.
LEMMA EmailCounts ==
  ASSUME NEW S
  PROVE  Email!Cardinality(S) = Cardinality(S)
BY DEF Email!Cardinality, Cardinality

SomeLinks == MaxLinks \in Nat \ {0} /\ "none" \notin Emails

Asking    == [at : {"request"}, old : Emails, new : Emails]
Following == [at : {"apply", "expire"}, request : Requests, new : Emails]
Naming    == [at : {"resend", "archive"}, request : Requests]
Finishing == [at : {"finalize"}]
EmailWorks == Asking \cup Following \cup Naming \cup Finishing \cup {Email!Idle}

EmailShaped == Email!TypeOK /\ work \in [Procs -> EmailWorks] /\ \A r \in Email!Pending : change[r].new \in Emails
OnePends == (\A r, q \in Email!Pending : r = q) /\ email \notin taken

Kept1(r) == archived[r] = IF change[r].status = "verified" THEN 1 ELSE 0
Olds == {change[r].old : r \in {s \in Requests : archived[s] > 0}}
\* Nothing is half done: every address is kept, and the request that pends is about the address of now.
Settled ==
  /\ had \subseteq {email} \cup Olds
  /\ \A r \in Email!Pending : change[r].old = email /\ change[r].new # email
\* The address is changed, and the request that pends has the one before.
Applied == \E r \in Email!Pending : change[r].new = email /\ had \subseteq {email, change[r].old} \cup Olds
Halfway(w) == w.at \in {"finalize", "archive"}
EmailReadsNow(w) ==
  /\ w.at = "request" => w.old = email /\ w.new # email
  /\ w.at \in {"apply", "expire"} => w.request \in Email!Pending /\ w.new = change[w.request].new
  /\ w.at = "archive" => w.request \in Email!Pending /\ change[w.request].new = email
EmailInTurn ==
  calm => /\ \A p, q \in Procs : work[p] # Email!Idle /\ work[q] # Email!Idle => p = q
          /\ \A p \in Procs : EmailReadsNow(work[p])
          /\ \A r \in Requests : Kept1(r)
          /\ Settled \/ (Applied /\ \E p \in Procs : Halfway(work[p]))

EmailInv == EmailShaped /\ OnePends /\ EmailInTurn

LEMMA EmailKinds ==
  ASSUME NEW w \in EmailWorks
  PROVE  /\ w = Email!Idle <=> w.at = "idle"
         /\ w.at = "request" => w \in Asking
         /\ w.at \in {"apply", "expire"} => w \in Following
         /\ w.at \in {"resend", "archive"} => w \in Naming
BY DEF EmailWorks, Email!Idle, Asking, Following, Naming, Finishing

LEMMA EmailEnds ==
  ASSUME EmailInv, NEW p \in Procs, Email!Done(p)
  PROVE  /\ work' \in [Procs -> EmailWorks]
         /\ \A q \in Procs : work'[q] = IF q = p THEN Email!Idle ELSE work[q]
BY DEF EmailInv, EmailShaped, Email!Done, EmailWorks

\* Of requests that follow each other, where one is under way the others are not.
LEMMA EmailAlone ==
  ASSUME EmailInv, calm, NEW p \in Procs, work[p].at # "idle"
  PROVE  /\ \A q \in Procs : q # p => work[q] = Email!Idle
         /\ EmailReadsNow(work[p]) /\ (\A r \in Requests : Kept1(r))
         /\ ~Halfway(work[p]) => Settled
         /\ Settled \/ Applied
<1>1. work[p] # Email!Idle
  BY DEF Email!Idle
<1>2. \A q \in Procs : q # p => work[q] = Email!Idle
  BY <1>1 DEF EmailInv, EmailInTurn
<1>3. ASSUME ~Halfway(work[p])
      PROVE  \A q \in Procs : ~Halfway(work[q])
  BY <1>2, <1>3 DEF Halfway, Email!Idle
<1> QED  BY <1>2, <1>3 DEF EmailInv, EmailInTurn

\* What the requests read does not matter once all are over.
LEMMA EmailAllOver ==
  ASSUME calm' => /\ \A q \in Procs : work'[q] = Email!Idle
                  /\ (\A r \in Requests : Kept1(r)') /\ Settled'
  PROVE  EmailInTurn'
<1>1. ASSUME calm', NEW q \in Procs
      PROVE  EmailReadsNow(work[q])'
  <2>1. work'[q] = Email!Idle
    BY <1>1
  <2> QED  BY <2>1 DEF EmailReadsNow, Email!Idle
<1> QED  BY <1>1 DEF EmailInTurn

-----------------------------------------------------------------------------
LEMMA EmailArriveStep ==
  ASSUME SomeLinks, EmailInv, NEW p \in Procs, NEW w \in EmailWorks, w # Email!Idle, Email!Arrive(p, w),
         calm /\ Settled => EmailReadsNow(w),
         UNCHANGED <<email, taken, change, archived, had>>
  PROVE  EmailInv'
<1>1. work \in [Procs -> EmailWorks] /\ calm \in BOOLEAN /\ work' = [work EXCEPT ![p] = w]
      /\ calm' = (calm /\ \A q \in Procs : work[q] = Email!Idle)
  BY DEF EmailInv, EmailShaped, Email!TypeOK, Email!Arrive
<1>2. work' \in [Procs -> EmailWorks] /\ calm' \in BOOLEAN /\ (calm' => calm)
      /\ \A q \in Procs : work'[q] = IF q = p THEN w ELSE work[q]
  BY <1>1
<1>3. Email!Pending' = Email!Pending
  BY DEF Email!Pending
<1>4. EmailShaped' /\ OnePends'
  BY <1>2, <1>3 DEF EmailInv, EmailShaped, Email!TypeOK, OnePends
<1>5. ASSUME calm'
      PROVE  /\ \A q \in Procs : work[q] = Email!Idle
             /\ \A q \in Procs : ~Halfway(work[q])
             /\ Settled /\ \A r \in Requests : Kept1(r)
  <2>1. \A q \in Procs : work[q] = Email!Idle
    BY <1>1, <1>5
  <2>2. \A q \in Procs : ~Halfway(work[q])
    BY <2>1 DEF Halfway, Email!Idle
  <2> QED  BY <1>2, <1>5, <2>1, <2>2 DEF EmailInv, EmailInTurn
<1>6. calm' => Settled' /\ \A r \in Requests : Kept1(r)'
  BY <1>3, <1>5 DEF Settled, Kept1, Olds
<1>7. ASSUME calm', NEW q \in Procs
      PROVE  EmailReadsNow(work[q])'
  <2>1. CASE q = p
    <3>1. work'[q] = w /\ EmailReadsNow(w)
      BY <1>2, <1>5, <1>7, <2>1
    <3> QED  BY <1>3, <3>1 DEF EmailReadsNow
  <2>2. CASE q # p
    <3>1. work'[q] = Email!Idle
      BY <1>2, <1>5, <1>7, <2>2
    <3> QED  BY <3>1 DEF EmailReadsNow, Email!Idle
  <2> QED  BY <2>1, <2>2
<1>8. calm' => \A o, q \in Procs : work'[o] # Email!Idle /\ work'[q] # Email!Idle => o = q
  BY <1>2, <1>5
<1> QED  BY <1>4, <1>6, <1>7, <1>8 DEF EmailInv, EmailInTurn

LEMMA EmailBeginStep ==
  ASSUME SomeLinks, EmailInv, NEW p \in Procs, Email!Begin(p)
  PROVE  EmailInv'
<1>1. ASSUME NEW a \in Emails, Email!RequestRead(p, a)
      PROVE  EmailInv'
  <2> DEFINE w == [at |-> "request", old |-> email, new |-> a]
  <2>1. w \in EmailWorks /\ w # Email!Idle /\ EmailReadsNow(w)
    BY <1>1 DEF EmailWorks, Asking, Email!Idle, EmailReadsNow, Email!RequestRead, EmailInv, EmailShaped,
       Email!TypeOK
  <2>2. Email!Arrive(p, w) /\ UNCHANGED <<email, taken, change, archived, had>>
    BY <1>1 DEF Email!RequestRead
  <2> HIDE DEF w
  <2> QED  BY <2>1, <2>2, EmailArriveStep
<1>2. ASSUME NEW r \in Requests, Email!ResendRead(p, r)
      PROVE  EmailInv'
  <2> DEFINE w == [at |-> "resend", request |-> r]
  <2>1. w \in EmailWorks /\ w # Email!Idle /\ EmailReadsNow(w)
    BY DEF EmailWorks, Naming, Email!Idle, EmailReadsNow
  <2>2. Email!Arrive(p, w) /\ UNCHANGED <<email, taken, change, archived, had>>
    BY <1>2 DEF Email!ResendRead
  <2> HIDE DEF w
  <2> QED  BY <2>1, <2>2, EmailArriveStep
<1>3. ASSUME NEW r \in Requests, Email!FollowVerified(p, r)
      PROVE  EmailInv'
  <2> DEFINE w == [at |-> "finalize"]
  <2>1. w \in EmailWorks /\ w # Email!Idle /\ EmailReadsNow(w)
    BY DEF EmailWorks, Finishing, Email!Idle, EmailReadsNow
  <2>2. Email!Arrive(p, w) /\ UNCHANGED <<email, taken, change, archived, had>>
    BY <1>3 DEF Email!FollowVerified
  <2> HIDE DEF w
  <2> QED  BY <2>1, <2>2, EmailArriveStep
<1>4. ASSUME NEW r \in Requests, Email!FollowPending(p, r)
      PROVE  EmailInv'
  <2>1. PICK at \in {"expire", "apply"} : at = IF change[r].due THEN "expire" ELSE "apply"
    OBVIOUS
  <2> DEFINE w == [at |-> at, request |-> r, new |-> change[r].new]
  <2>2. r \in Email!Pending /\ change[r].new \in Emails
    BY <1>4 DEF Email!FollowPending, EmailInv, EmailShaped
  <2>3. w \in EmailWorks /\ w # Email!Idle /\ EmailReadsNow(w)
    BY <2>2 DEF EmailWorks, Following, Email!Idle, EmailReadsNow
  <2>4. Email!Arrive(p, w) /\ UNCHANGED <<email, taken, change, archived, had>>
    BY <1>4, <2>1 DEF Email!FollowPending
  <2> HIDE DEF w
  <2> QED  BY <2>3, <2>4, EmailArriveStep
<1> QED  BY <1>1, <1>2, <1>3, <1>4 DEF Email!Begin

-----------------------------------------------------------------------------
LEMMA RequestStep ==
  ASSUME SomeLinks, EmailInv, NEW p \in Procs, NEW r \in Requests, Email!RequestEmailChange(p, r)
  PROVE  EmailInv'
<1> PICK w \in EmailWorks : w = work[p]
  BY DEF EmailInv, EmailShaped
<1>1. w.old \in Emails /\ w.new \in Emails /\ w.at = "request"
  BY EmailKinds DEF Email!RequestEmailChange, Asking
<1> DEFINE row == [status |-> "pending", old |-> w.old, new |-> w.new, link |-> 1, due |-> FALSE]
<1>2. row \in Email!Rows /\ row.status = "pending" /\ row.old = w.old /\ row.new = w.new
  BY <1>1 DEF Email!Rows, Email!Statuses, SomeLinks
<1>3. change \in [Requests -> Email!Rows]
  BY DEF EmailInv, EmailShaped, Email!TypeOK
<1>4. change' = [s \in Requests |-> IF s = r THEN row ELSE Email!Replaced(s)]
  BY DEF Email!RequestEmailChange
<1> HIDE DEF row
<1>5. \A s \in Requests : Email!Replaced(s) \in Email!Rows /\ Email!Replaced(s).status # "pending"
                          /\ Email!Replaced(s).old = change[s].old
                          /\ (Email!Replaced(s).status = "verified" <=> change[s].status = "verified")
  BY <1>3 DEF Email!Replaced, Email!Pending, Email!Rows, Email!Statuses
<1>6. change' \in [Requests -> Email!Rows] /\ change'[r] = row
      /\ \A s \in Requests : s # r => change'[s] = Email!Replaced(s)
  BY <1>2, <1>4, <1>5
<1>7. Email!Pending' = {r}
  BY <1>2, <1>5, <1>6 DEF Email!Pending
<1>8. work' \in [Procs -> EmailWorks] /\ \A q \in Procs : work'[q] = IF q = p THEN Email!Idle ELSE work[q]
  BY EmailEnds DEF Email!RequestEmailChange
<1>9. UNCHANGED <<email, taken, archived, had, calm>> /\ change[r].status = "none"
  BY DEF Email!RequestEmailChange
<1>10. EmailShaped' /\ OnePends'
  BY <1>1, <1>2, <1>6, <1>7, <1>8, <1>9 DEF EmailInv, EmailShaped, Email!TypeOK, OnePends
<1>11. ASSUME calm'
       PROVE  /\ \A q \in Procs : work'[q] = Email!Idle
              /\ (\A s \in Requests : Kept1(s)') /\ Settled'
  <2>1. w.at # "idle" /\ ~Halfway(w)
    BY <1>1 DEF Halfway
  <2>2. /\ \A q \in Procs : q # p => work[q] = Email!Idle
        /\ EmailReadsNow(w) /\ (\A s \in Requests : Kept1(s)) /\ Settled
    BY <1>9, <1>11, <2>1, EmailAlone
  <2>3. w.old = email /\ w.new # email
    BY <1>1, <2>2 DEF EmailReadsNow
  <2>4. \A s \in Requests : Kept1(s)'
    BY <1>2, <1>5, <1>6, <1>9, <2>2 DEF Kept1
  <2>5. Olds \subseteq Olds'
    BY <1>5, <1>6, <1>9, <2>2 DEF Olds, Kept1
  <2>6. Settled'
    BY <1>2, <1>6, <1>7, <1>9, <2>2, <2>3, <2>5 DEF Settled
  <2> QED  BY <1>8, <2>2, <2>4, <2>6
<1> QED  BY <1>10, <1>11, EmailAllOver DEF EmailInv

\* A row whose status changes away from pending, or that is mailed again.
LEMMA RowStep ==
  ASSUME SomeLinks, EmailInv, NEW r \in Requests, NEW row \in Email!Rows,
         change' = [change EXCEPT ![r] = row],
         row.old = change[r].old, row.new = change[r].new,
         row.status = "pending" => change[r].status = "pending",
         UNCHANGED <<email, taken, had>>, archived' \in [Requests -> Nat],
         work' \in [Procs -> EmailWorks], calm' \in BOOLEAN
  PROVE  /\ EmailShaped' /\ OnePends' /\ Email!Pending' \subseteq Email!Pending
         /\ change' \in [Requests -> Email!Rows] /\ change'[r] = row
         /\ \A s \in Requests : /\ s # r => change'[s] = change[s]
                                /\ change'[s].old = change[s].old /\ change'[s].new = change[s].new
<1>1. change \in [Requests -> Email!Rows]
  BY DEF EmailInv, EmailShaped, Email!TypeOK
<1>2. /\ change' \in [Requests -> Email!Rows] /\ change'[r] = row
      /\ \A s \in Requests : /\ s # r => change'[s] = change[s]
                             /\ change'[s].old = change[s].old /\ change'[s].new = change[s].new
  BY <1>1
<1>3. Email!Pending' \subseteq Email!Pending
  BY <1>2 DEF Email!Pending
<1>4. EmailShaped' /\ OnePends'
  <2>1. \A s \in Email!Pending' : change'[s].new \in Emails
    BY <1>2, <1>3 DEF EmailInv, EmailShaped, Email!Pending
  <2>2. Email!TypeOK'
    BY <1>2 DEF EmailInv, EmailShaped, Email!TypeOK
  <2> QED  BY <1>3, <2>1, <2>2 DEF EmailInv, EmailShaped, OnePends
<1> QED  BY <1>2, <1>3, <1>4

LEMMA ResendStep ==
  ASSUME SomeLinks, EmailInv, NEW p \in Procs, Email!ResendEmailChange(p)
  PROVE  EmailInv'
<1> PICK w \in EmailWorks : w = work[p]
  BY DEF EmailInv, EmailShaped
<1>1. w.at = "resend" /\ w.request \in Requests
  BY EmailKinds DEF Email!ResendEmailChange, Naming
<1> PICK r \in Requests : r = w.request
  BY <1>1
<1> PICK c \in Email!Rows : c = change[r]
  BY DEF EmailInv, EmailShaped, Email!TypeOK
<1> DEFINE row == [c EXCEPT !.link = @ + 1, !.due = FALSE]
<1>2. c.link < MaxLinks /\ change' = [change EXCEPT ![r] = row]
  BY DEF Email!ResendEmailChange
<1>3. row \in Email!Rows /\ row.status = c.status /\ row.old = c.old /\ row.new = c.new
  <2>1. c.link \in 0..MaxLinks /\ c.link + 1 \in 0..MaxLinks
    BY <1>2 DEF Email!Rows, SomeLinks
  <2> QED  BY <2>1 DEF Email!Rows
<1> HIDE DEF row
<1>4. work' \in [Procs -> EmailWorks] /\ (\A q \in Procs : work'[q] = IF q = p THEN Email!Idle ELSE work[q])
      /\ UNCHANGED <<email, taken, archived, had, calm>>
  BY EmailEnds DEF Email!ResendEmailChange
<1>5. archived' \in [Requests -> Nat] /\ calm' \in BOOLEAN
  BY <1>4 DEF EmailInv, EmailShaped, Email!TypeOK
<1>6. /\ EmailShaped' /\ OnePends' /\ Email!Pending' \subseteq Email!Pending /\ change'[r] = row
      /\ \A s \in Requests : /\ s # r => change'[s] = change[s]
                             /\ change'[s].old = change[s].old /\ change'[s].new = change[s].new
  BY <1>2, <1>3, <1>4, <1>5, RowStep
<1>7. ASSUME calm'
      PROVE  /\ \A q \in Procs : work'[q] = Email!Idle
             /\ (\A s \in Requests : Kept1(s)') /\ Settled'
  <2>1. w.at # "idle" /\ ~Halfway(w)
    BY <1>1 DEF Halfway
  <2>2. /\ \A q \in Procs : q # p => work[q] = Email!Idle
        /\ (\A s \in Requests : Kept1(s)) /\ Settled
    BY <1>4, <1>7, <2>1, EmailAlone
  <2>3. \A s \in Requests : Kept1(s)'
    BY <1>3, <1>4, <1>6, <2>2 DEF Kept1
  <2>4. Olds' = Olds
    BY <1>4, <1>6 DEF Olds
  <2>5. Settled'
    BY <1>4, <1>6, <2>2, <2>4 DEF Settled, Email!Pending
  <2> QED  BY <1>4, <2>2, <2>3, <2>5
<1> QED  BY <1>6, <1>7, EmailAllOver DEF EmailInv

LEMMA ExpireStep ==
  ASSUME SomeLinks, EmailInv, NEW p \in Procs, Email!Expire(p)
  PROVE  EmailInv'
<1> PICK w \in EmailWorks : w = work[p]
  BY DEF EmailInv, EmailShaped
<1>1. w.at = "expire" /\ w.request \in Requests
  BY EmailKinds DEF Email!Expire, Following
<1> PICK r \in Requests : r = w.request
  BY <1>1
<1> PICK c \in Email!Rows : c = change[r]
  BY DEF EmailInv, EmailShaped, Email!TypeOK
<1> DEFINE row == [c EXCEPT !.status = "expired"]
<1>2. change' = [change EXCEPT ![r] = row]
  BY DEF Email!Expire
<1>3. row \in Email!Rows /\ row.status = "expired" /\ row.old = c.old /\ row.new = c.new
  BY DEF Email!Rows, Email!Statuses
<1> HIDE DEF row
<1>4. work' \in [Procs -> EmailWorks] /\ (\A q \in Procs : work'[q] = IF q = p THEN Email!Idle ELSE work[q])
      /\ UNCHANGED <<email, taken, archived, had, calm>>
  BY EmailEnds DEF Email!Expire
<1>5. archived' \in [Requests -> Nat] /\ calm' \in BOOLEAN
  BY <1>4 DEF EmailInv, EmailShaped, Email!TypeOK
<1>6. /\ EmailShaped' /\ OnePends' /\ Email!Pending' \subseteq Email!Pending /\ change'[r] = row
      /\ \A s \in Requests : /\ s # r => change'[s] = change[s]
                             /\ change'[s].old = change[s].old /\ change'[s].new = change[s].new
  BY <1>2, <1>3, <1>4, <1>5, RowStep
<1>7. ASSUME calm'
      PROVE  /\ \A q \in Procs : work'[q] = Email!Idle
             /\ (\A s \in Requests : Kept1(s)') /\ Settled'
  <2>1. w.at # "idle" /\ ~Halfway(w)
    BY <1>1 DEF Halfway
  <2>2. /\ \A q \in Procs : q # p => work[q] = Email!Idle
        /\ EmailReadsNow(w) /\ (\A s \in Requests : Kept1(s)) /\ Settled
    BY <1>4, <1>7, <2>1, EmailAlone
  <2>3. c.status = "pending"
    BY <1>1, <2>2 DEF EmailReadsNow, Email!Pending
  <2>4. \A s \in Requests : Kept1(s)'
    BY <1>3, <1>4, <1>6, <2>2, <2>3 DEF Kept1
  <2>5. Olds' = Olds
    BY <1>4, <1>6 DEF Olds
  <2>6. Settled'
    BY <1>4, <1>6, <2>2, <2>5 DEF Settled, Email!Pending
  <2> QED  BY <1>4, <2>2, <2>4, <2>6
<1> QED  BY <1>6, <1>7, EmailAllOver DEF EmailInv

LEMMA CancelStep ==
  ASSUME SomeLinks, EmailInv, Email!CancelEmailChange
  PROVE  EmailInv'
<1>1. /\ change' = [r \in Requests |-> Email!Replaced(r)]
      /\ calm' = (calm /\ \A q \in Procs : work[q] = Email!Idle)
      /\ UNCHANGED <<work, email, taken, archived, had>>
  BY DEF Email!CancelEmailChange, Email!AtOnce
<1>2. \A s \in Requests : Email!Replaced(s) \in Email!Rows /\ Email!Replaced(s).status # "pending"
                          /\ Email!Replaced(s).old = change[s].old
                          /\ (Email!Replaced(s).status = "verified" <=> change[s].status = "verified")
  BY DEF EmailInv, EmailShaped, Email!TypeOK, Email!Replaced, Email!Pending, Email!Rows, Email!Statuses
<1>3. change' \in [Requests -> Email!Rows] /\ \A s \in Requests : change'[s] = Email!Replaced(s)
  BY <1>1, <1>2
<1>4. Email!Pending' = {}
  BY <1>2, <1>3 DEF Email!Pending
<1>5. EmailShaped' /\ OnePends'
  BY <1>1, <1>3, <1>4 DEF EmailInv, EmailShaped, Email!TypeOK, OnePends
<1>6. ASSUME calm'
      PROVE  /\ \A q \in Procs : work'[q] = Email!Idle
             /\ (\A s \in Requests : Kept1(s)') /\ Settled'
  <2>1. \A q \in Procs : work[q] = Email!Idle /\ ~Halfway(work[q])
    <3>1. \A q \in Procs : work[q] = Email!Idle
      BY <1>1, <1>6
    <3> QED  BY <3>1 DEF Halfway, Email!Idle
  <2>2. Settled /\ \A s \in Requests : Kept1(s)
    BY <1>1, <1>6, <2>1 DEF EmailInv, EmailInTurn
  <2>3. \A s \in Requests : Kept1(s)'
    BY <1>1, <1>2, <1>3, <2>2 DEF Kept1
  <2>4. Olds' = Olds
    BY <1>1, <1>2, <1>3 DEF Olds
  <2> QED  BY <1>1, <1>4, <2>1, <2>2, <2>3, <2>4 DEF Settled
<1> QED  BY <1>5, <1>6, EmailAllOver DEF EmailInv

-----------------------------------------------------------------------------
LEMMA ApplyStep ==
  ASSUME SomeLinks, EmailInv, NEW p \in Procs, Email!ApplyEmailChangeToken(p)
  PROVE  EmailInv'
<1> PICK w \in EmailWorks : w = work[p]
  BY DEF EmailInv, EmailShaped
<1>1. w.at = "apply" /\ w.request \in Requests /\ w.new \in Emails /\ w.new \notin taken
  BY EmailKinds DEF Email!ApplyEmailChangeToken, Following
<1>2. /\ email' = w.new /\ had' = had \cup {w.new}
      /\ work' = [work EXCEPT ![p] = [at |-> "finalize"]]
      /\ UNCHANGED <<taken, change, archived, calm>>
  BY DEF Email!ApplyEmailChangeToken
<1>3. [at |-> "finalize"] \in EmailWorks
  BY DEF EmailWorks, Finishing
<1>4. work' \in [Procs -> EmailWorks]
      /\ \A q \in Procs : work'[q] = IF q = p THEN [at |-> "finalize"] ELSE work[q]
  BY <1>2, <1>3 DEF EmailInv, EmailShaped
<1>5. Email!Pending' = Email!Pending
  BY <1>2 DEF Email!Pending
<1>6. EmailShaped' /\ OnePends'
  BY <1>1, <1>2, <1>4, <1>5 DEF EmailInv, EmailShaped, Email!TypeOK, OnePends
<1>7. ASSUME calm'
      PROVE  /\ \A o, q \in Procs : work'[o] # Email!Idle /\ work'[q] # Email!Idle => o = q
             /\ \A q \in Procs : EmailReadsNow(work[q])'
             /\ \A r \in Requests : Kept1(r)'
             /\ Applied' /\ \E q \in Procs : Halfway(work[q])'
  <2>1. w.at # "idle" /\ ~Halfway(w)
    BY <1>1 DEF Halfway
  <2>2. /\ \A q \in Procs : q # p => work[q] = Email!Idle
        /\ EmailReadsNow(w) /\ (\A r \in Requests : Kept1(r)) /\ Settled
    BY <1>2, <1>7, <2>1, EmailAlone
  <2>3. \A q \in Procs : work'[q] = IF q = p THEN [at |-> "finalize"] ELSE Email!Idle
    BY <1>4, <2>2
  <2>4. \A q \in Procs : EmailReadsNow(work[q])'
    <3> SUFFICES ASSUME NEW q \in Procs
                 PROVE  EmailReadsNow(work[q])'
      OBVIOUS
    <3>1. work'[q].at \in {"idle", "finalize"}
      BY <2>3 DEF Email!Idle
    <3> QED  BY <3>1 DEF EmailReadsNow
  <2>5. w.request \in Email!Pending /\ w.new = change[w.request].new
    BY <1>1, <2>2 DEF EmailReadsNow
  <2>6. had' \subseteq {email', change[w.request].old} \cup Olds
    BY <1>2, <2>2, <2>5 DEF Settled
  <2>7. Applied'
    BY <1>2, <1>5, <2>5, <2>6 DEF Applied, Olds
  <2>8. Halfway(work[p])'
    BY <2>3 DEF Halfway
  <2> QED  BY <1>2, <2>2, <2>3, <2>4, <2>7, <2>8 DEF Kept1
<1> QED  BY <1>6, <1>7 DEF EmailInv, EmailInTurn

LEMMA FinalizeReadStep ==
  ASSUME SomeLinks, EmailInv, NEW p \in Procs, Email!FinalizeRead(p)
  PROVE  EmailInv'
<1> USE DEF Email!FinalizeRead
<1>1. work[p].at = "finalize" /\ UNCHANGED <<email, taken, change, archived, had, calm>>
  OBVIOUS
<1>2. Email!Pending' = Email!Pending
  BY <1>1 DEF Email!Pending
<1>3. work[p].at # "idle"
  BY <1>1
<1>4. work \in [Procs -> EmailWorks]
  BY DEF EmailInv, EmailShaped
<1>5. CASE \E r \in Requests : Email!Unfinished(r) /\ work' = [work EXCEPT ![p] = [at |-> "archive", request |-> r]]
  <2> PICK r \in Requests : Email!Unfinished(r) /\ work' = [work EXCEPT ![p] = [at |-> "archive", request |-> r]]
    BY <1>5
  <2> DEFINE w == [at |-> "archive", request |-> r]
  <2>1. w \in EmailWorks /\ w.at = "archive" /\ w.request = r /\ work' = [work EXCEPT ![p] = w]
    BY DEF EmailWorks, Naming
  <2> HIDE DEF w
  <2>2. work' \in [Procs -> EmailWorks] /\ \A q \in Procs : work'[q] = IF q = p THEN w ELSE work[q]
    BY <1>4, <2>1
  <2>3. EmailShaped' /\ OnePends'
    BY <1>1, <1>2, <2>2 DEF EmailInv, EmailShaped, Email!TypeOK, OnePends
  <2>4. r \in Email!Pending /\ change[r].new = email
    BY DEF Email!Unfinished
  <2>5. ASSUME calm'
        PROVE  /\ \A o, q \in Procs : work'[o] # Email!Idle /\ work'[q] # Email!Idle => o = q
               /\ \A q \in Procs : EmailReadsNow(work[q])'
               /\ \A s \in Requests : Kept1(s)'
               /\ Applied' /\ \E q \in Procs : Halfway(work[q])'
    <3>1. /\ \A q \in Procs : q # p => work[q] = Email!Idle
          /\ (\A s \in Requests : Kept1(s)) /\ (Settled \/ Applied)
      BY <1>1, <1>3, <2>5, EmailAlone
    <3>2. Applied
      BY <2>4, <3>1 DEF Settled
    <3>3. Applied'
      BY <1>1, <1>2, <3>2 DEF Applied, Olds
    <3>4. \A q \in Procs : work'[q] = IF q = p THEN w ELSE Email!Idle
      BY <2>2, <3>1
    <3>5. \A q \in Procs : EmailReadsNow(work[q])'
      <4> SUFFICES ASSUME NEW q \in Procs
                   PROVE  EmailReadsNow(work[q])'
        OBVIOUS
      <4>1. CASE q = p
        <5>1. work'[q] = w
          BY <3>4, <4>1
        <5> QED  BY <1>1, <1>2, <2>1, <2>4, <5>1 DEF EmailReadsNow
      <4>2. CASE q # p
        <5>1. work'[q].at = "idle"
          BY <3>4, <4>2 DEF Email!Idle
        <5> QED  BY <5>1 DEF EmailReadsNow
      <4> QED  BY <4>1, <4>2
    <3>6. Halfway(work[p])'
      BY <2>1, <3>4 DEF Halfway
    <3> QED  BY <1>1, <3>1, <3>3, <3>4, <3>5, <3>6 DEF Kept1
  <2> QED  BY <2>3, <2>5 DEF EmailInv, EmailInTurn
<1>6. CASE (\A r \in Requests : ~Email!Unfinished(r)) /\ Email!Done(p)
  <2>1. work' \in [Procs -> EmailWorks] /\ \A q \in Procs : work'[q] = IF q = p THEN Email!Idle ELSE work[q]
    BY <1>6, EmailEnds
  <2>2. EmailShaped' /\ OnePends'
    BY <1>1, <1>2, <2>1 DEF EmailInv, EmailShaped, Email!TypeOK, OnePends
  <2>3. ASSUME calm'
        PROVE  /\ \A q \in Procs : work'[q] = Email!Idle
               /\ (\A s \in Requests : Kept1(s)') /\ Settled'
    <3>1. /\ \A q \in Procs : q # p => work[q] = Email!Idle
          /\ (\A s \in Requests : Kept1(s)) /\ (Settled \/ Applied)
      BY <1>1, <1>3, <2>3, EmailAlone
    <3>2. ~Applied
      BY <1>6 DEF Applied, Email!Unfinished, Email!Pending
    <3>3. Settled'
      BY <1>1, <1>2, <3>1, <3>2 DEF Settled, Olds
    <3> QED  BY <1>1, <2>1, <3>1, <3>3 DEF Kept1
  <2> QED  BY <2>2, <2>3, EmailAllOver DEF EmailInv
<1> QED  BY <1>5, <1>6

LEMMA FinalizeStep ==
  ASSUME SomeLinks, EmailInv, NEW p \in Procs, Email!FinalizeEmailChange(p)
  PROVE  EmailInv'
<1> PICK w \in EmailWorks : w = work[p]
  BY DEF EmailInv, EmailShaped
<1>1. w.at = "archive" /\ w.request \in Requests
  BY EmailKinds DEF Email!FinalizeEmailChange, Naming
<1> PICK r \in Requests : r = w.request
  BY <1>1
<1> PICK c \in Email!Rows : c = change[r]
  BY DEF EmailInv, EmailShaped, Email!TypeOK
<1> DEFINE row == [c EXCEPT !.status = "verified"]
<1>2. change' = [change EXCEPT ![r] = row] /\ archived' = [archived EXCEPT ![r] = @ + 1]
  BY DEF Email!FinalizeEmailChange
<1>3. row \in Email!Rows /\ row.status = "verified" /\ row.old = c.old /\ row.new = c.new
  BY DEF Email!Rows, Email!Statuses
<1> HIDE DEF row
<1>4. work' \in [Procs -> EmailWorks] /\ (\A q \in Procs : work'[q] = IF q = p THEN Email!Idle ELSE work[q])
      /\ UNCHANGED <<email, taken, had, calm>>
  BY EmailEnds DEF Email!FinalizeEmailChange
<1>5. /\ archived' \in [Requests -> Nat] /\ calm' \in BOOLEAN
      /\ archived'[r] = archived[r] + 1 /\ archived[r] \in Nat
      /\ \A s \in Requests : s # r => archived'[s] = archived[s]
  BY <1>2, <1>4 DEF EmailInv, EmailShaped, Email!TypeOK
<1>6. /\ EmailShaped' /\ OnePends' /\ Email!Pending' \subseteq Email!Pending /\ change'[r] = row
      /\ \A s \in Requests : /\ s # r => change'[s] = change[s]
                             /\ change'[s].old = change[s].old /\ change'[s].new = change[s].new
  BY <1>2, <1>3, <1>4, <1>5, RowStep
<1>7. ASSUME calm'
      PROVE  /\ \A q \in Procs : work'[q] = Email!Idle
             /\ (\A s \in Requests : Kept1(s)') /\ Settled'
  <2>1. w.at # "idle"
    BY <1>1
  <2>2. /\ \A q \in Procs : q # p => work[q] = Email!Idle
        /\ EmailReadsNow(w) /\ (\A s \in Requests : Kept1(s)) /\ (Settled \/ Applied)
    BY <1>4, <1>7, <2>1, EmailAlone
  <2>3. r \in Email!Pending /\ c.new = email
    BY <1>1, <2>2 DEF EmailReadsNow
  <2>4. c.status = "pending" /\ archived[r] = 0
    BY <2>2, <2>3 DEF Kept1, Email!Pending
  <2>5. \A s \in Requests : Kept1(s)'
    BY <1>3, <1>5, <1>6, <2>2, <2>4 DEF Kept1
  <2>6. Email!Pending = {r}
    BY <2>3 DEF EmailInv, OnePends
  <2>7. Email!Pending' = {}
    BY <1>3, <1>6, <2>6 DEF Email!Pending
  <2>8. had \subseteq {email, c.old} \cup Olds
    BY <2>2, <2>3, <2>6 DEF Settled, Applied
  <2>9. c.old \in Olds'
    BY <1>3, <1>5, <1>6, <2>4 DEF Olds
  <2>10. Olds \subseteq Olds'
    <3> SUFFICES ASSUME NEW s \in Requests, archived[s] > 0
                 PROVE  archived'[s] > 0 /\ change'[s].old = change[s].old
      BY DEF Olds
    <3> QED  BY <1>5, <1>6
  <2>11. Settled'
    BY <1>4, <2>7, <2>8, <2>9, <2>10 DEF Settled
  <2> QED  BY <1>4, <2>2, <2>5, <2>11
<1> QED  BY <1>6, <1>7, EmailAllOver DEF EmailInv

LEMMA EmailAbandonStep ==
  ASSUME SomeLinks, EmailInv, NEW p \in Procs, Email!Abandon(p)
  PROVE  EmailInv'
<1>1. work[p] # Email!Idle /\ Email!Done(p) /\ UNCHANGED <<email, taken, change, archived, had>>
      /\ calm' = (calm /\ work[p].at \notin {"finalize", "archive"})
  BY DEF Email!Abandon
<1>2. work' \in [Procs -> EmailWorks] /\ \A q \in Procs : work'[q] = IF q = p THEN Email!Idle ELSE work[q]
  BY <1>1, EmailEnds
<1>3. calm' \in BOOLEAN /\ Email!Pending' = Email!Pending /\ Olds' = Olds
  BY <1>1 DEF EmailInv, EmailShaped, Email!TypeOK, Email!Pending, Olds
<1>4. EmailShaped' /\ OnePends'
  BY <1>1, <1>2, <1>3 DEF EmailInv, EmailShaped, Email!TypeOK, OnePends
<1>5. ASSUME calm'
      PROVE  /\ \A q \in Procs : work'[q] = Email!Idle
             /\ (\A s \in Requests : Kept1(s)') /\ Settled'
  <2>1. calm /\ ~Halfway(work[p])
    BY <1>1, <1>5 DEF Halfway
  <2>2. work[p].at # "idle"
    BY <1>1, EmailKinds DEF EmailInv, EmailShaped
  <2>3. /\ \A q \in Procs : q # p => work[q] = Email!Idle
        /\ (\A s \in Requests : Kept1(s)) /\ Settled
    BY <2>1, <2>2, EmailAlone
  <2>4. Settled'
    BY <1>1, <1>3, <2>3 DEF Settled
  <2> QED  BY <1>1, <1>2, <2>3, <2>4 DEF Kept1
<1> QED  BY <1>4, <1>5, EmailAllOver DEF EmailInv

LEMMA SignUpStep ==
  ASSUME SomeLinks, EmailInv, NEW a \in Emails, Email!SignUpElsewhere(a)
  PROVE  EmailInv'
<1>1. a # email /\ taken' = taken \cup {a} /\ UNCHANGED <<email, change, archived, had, work, calm>>
  BY DEF Email!SignUpElsewhere
<1>2. Email!Pending' = Email!Pending
  BY <1>1 DEF Email!Pending
<1>3. EmailShaped' /\ OnePends'
  BY <1>1, <1>2 DEF EmailInv, EmailShaped, Email!TypeOK, OnePends
<1>4. EmailInTurn' <=> EmailInTurn
  BY <1>1, <1>2 DEF EmailInTurn, EmailReadsNow, Kept1, Settled, Applied, Halfway, Olds
<1> QED  BY <1>3, <1>4 DEF EmailInv

LEMMA DayStep ==
  ASSUME SomeLinks, EmailInv, NEW r \in Requests, Email!DayPasses(r)
  PROVE  EmailInv'
<1> PICK c \in Email!Rows : c = change[r]
  BY DEF EmailInv, EmailShaped, Email!TypeOK
<1> DEFINE row == [c EXCEPT !.due = TRUE]
<1>1. /\ change' = [change EXCEPT ![r] = row]
      /\ UNCHANGED <<email, taken, archived, had, work, calm>>
  BY DEF Email!DayPasses
<1>2. row \in Email!Rows /\ row.status = c.status /\ row.old = c.old /\ row.new = c.new
  BY DEF Email!Rows
<1> HIDE DEF row
<1>3. archived' \in [Requests -> Nat] /\ calm' \in BOOLEAN /\ work' \in [Procs -> EmailWorks]
  BY <1>1 DEF EmailInv, EmailShaped, Email!TypeOK
<1>4. /\ EmailShaped' /\ OnePends' /\ change'[r] = row
      /\ \A s \in Requests : /\ s # r => change'[s] = change[s]
                             /\ change'[s].old = change[s].old /\ change'[s].new = change[s].new
  BY <1>1, <1>2, <1>3, RowStep
<1>5. \A s \in Requests : /\ change'[s].status = change[s].status
                          /\ change'[s].old = change[s].old /\ change'[s].new = change[s].new
  BY <1>2, <1>4
<1>6. Email!Pending' = Email!Pending /\ Olds' = Olds
  BY <1>1, <1>5 DEF Email!Pending, Olds
<1>7. ASSUME EmailInTurn, calm'
      PROVE  /\ \A o, q \in Procs : work'[o] # Email!Idle /\ work'[q] # Email!Idle => o = q
             /\ \A q \in Procs : EmailReadsNow(work[q])'
             /\ \A s \in Requests : Kept1(s)'
             /\ Settled' \/ (Applied' /\ \E q \in Procs : Halfway(work[q])')
  <2>1. \A q \in Procs : EmailReadsNow(work[q])'
    <3> SUFFICES ASSUME NEW q \in Procs
                 PROVE  EmailReadsNow(work[q])'
      OBVIOUS
    <3>1. EmailReadsNow(work[q]) /\ work'[q] = work[q]
      BY <1>1, <1>7 DEF EmailInTurn
    <3>2. \A s \in Email!Pending : change'[s].new = change[s].new
      BY <1>5 DEF Email!Pending
    <3> QED  BY <1>1, <1>6, <3>1, <3>2 DEF EmailReadsNow
  <2>2. \A s \in Requests : Kept1(s)'
    BY <1>1, <1>5, <1>7 DEF EmailInTurn, Kept1
  <2>3. Settled => Settled'
    BY <1>1, <1>5, <1>6 DEF Settled, Email!Pending
  <2>4. Applied => Applied'
    BY <1>1, <1>5, <1>6 DEF Applied, Email!Pending
  <2>5. (\E q \in Procs : Halfway(work[q])) => \E q \in Procs : Halfway(work[q])'
    BY <1>1 DEF Halfway
  <2> QED  BY <1>1, <1>7, <2>1, <2>2, <2>3, <2>4, <2>5 DEF EmailInTurn
<1> QED  BY <1>4, <1>7 DEF EmailInv, EmailInTurn

-----------------------------------------------------------------------------
LEMMA EmailInitHolds ==
  ASSUME SomeLinks, Email!Init
  PROVE  EmailInv
<1>1. /\ email \in Emails /\ taken = {} /\ had = {email}
      /\ change = [r \in Requests |-> Email!NoChange] /\ archived = [r \in Requests |-> 0]
      /\ work = [p \in Procs |-> Email!Idle] /\ calm = TRUE
  BY DEF Email!Init
<1>2. Email!NoChange \in Email!Rows /\ Email!NoChange.status = "none"
  BY DEF Email!NoChange, Email!Rows, Email!Statuses, SomeLinks
<1>3. Email!Pending = {}
  BY <1>1, <1>2 DEF Email!Pending
<1>4. EmailShaped /\ OnePends
  BY <1>1, <1>2, <1>3 DEF EmailShaped, Email!TypeOK, OnePends, EmailWorks
<1>5. \A p \in Procs : EmailReadsNow(work[p])
  BY <1>1 DEF EmailReadsNow, Email!Idle
<1>6. \A r \in Requests : Kept1(r)
  BY <1>1, <1>2 DEF Kept1
<1> QED  BY <1>1, <1>3, <1>4, <1>5, <1>6 DEF EmailInv, EmailInTurn, Settled

LEMMA EmailNextHolds ==
  ASSUME SomeLinks, EmailInv, [Email!Next]_(Email!vars)
  PROVE  EmailInv'
<1>1. ASSUME NEW p \in Procs, Email!Continue(p)
      PROVE  EmailInv'
  BY <1>1, RequestStep, ResendStep, ExpireStep, ApplyStep, FinalizeReadStep, FinalizeStep,
     EmailAbandonStep DEF Email!Continue
<1>2. CASE UNCHANGED Email!vars
  BY <1>2 DEF Email!vars, EmailInv, EmailShaped, Email!TypeOK, Email!Pending, OnePends, EmailInTurn,
     EmailReadsNow, Kept1, Settled, Applied, Halfway, Olds
<1> QED  BY <1>1, <1>2, EmailBeginStep, CancelStep, SignUpStep, DayStep DEF Email!Next

LEMMA EmailInvSuffices ==
  ASSUME EmailInv
  PROVE  Email!AddressesAreKept
<1>1. Cardinality(Email!Pending) <= 1
  <2>1. CASE Email!Pending = {}
    BY <2>1, FS_EmptySet
  <2>2. CASE Email!Pending # {}
    <3>1. PICK r \in Email!Pending : Email!Pending = {r}
      BY <2>2 DEF EmailInv, OnePends
    <3>2. Cardinality({r}) = 1
      BY FS_Singleton
    <3> QED  BY <3>1, <3>2
  <2> QED  BY <2>1, <2>2
<1>2. Email!NoAddressIsLost
  <2> SUFFICES ASSUME calm
               PROVE  /\ \A r \in Requests : Kept1(r)
                      /\ (\A p \in Procs : work[p] = Email!Idle) => Settled
    BY DEF Email!NoAddressIsLost, Kept1, Settled, Olds
  <2>1. (\A p \in Procs : work[p] = Email!Idle) => \A p \in Procs : ~Halfway(work[p])
    BY DEF Halfway, Email!Idle
  <2> QED  BY <2>1 DEF EmailInv, EmailInTurn
<1> QED  BY <1>1, <1>2, EmailCounts DEF EmailInv, OnePends, Email!OneRequestPends, Email!AddressesAreKept

\* Of e-mail changes that follow each other every address the account had is archived or its own, and at
\* most one request is ever pending (account-security-repo.ts:100-224), for every number of addresses,
\* requests and links.
THEOREM AddressesStay ==
  ASSUME SomeLinks
  PROVE  Email!Spec => []Email!AddressesAreKept
<1>1. Email!Spec => []EmailInv
  BY EmailInitHolds, EmailNextHolds, PTL DEF Email!Spec
<1> QED  BY <1>1, EmailInvSuffices, PTL

-----------------------------------------------------------------------------
(* The learners. *)
CONSTANTS NewLearners, Names, MaxVersion
VARIABLES account, onboarding, learner, creations, updates, told

Children == INSTANCE LearnerProfile WITH Learners <- NewLearners

\* The instance counts as the library does.
LEMMA ChildCounts ==
  ASSUME NEW S
  PROVE  Children!Cardinality(S) = Cardinality(S)
BY DEF Children!Cardinality, Cardinality

Named == Children!None \notin NewLearners /\ Children!None \notin Names /\ MaxVersion \in Nat \ {0}

Creating == [at : {"create"}, key : Keys, name : Names]
Updating == [at : {"update"}, learner : NewLearners, key : Keys, name : Names,
             expected : 1..MaxVersion, changed : BOOLEAN]
ChildShaped == Children!TypeOK /\ work \in [Procs -> Creating \cup Updating \cup {Children!Idle}]

\* A key names the learner it made, and no other key does.
Keyed ==
  /\ \A k \in Keys : creations[k] # Children!None => creations[k] \in Children!Made
  /\ \A l \in Children!Made : \E k \in Keys : creations[k] = l
  /\ \A j, k \in Keys : creations[j] = creations[k] /\ creations[j] # Children!None => j = k
NamesApart == \A l, m \in Children!Made : learner[l].name = learner[m].name => l = m
Onboarded == onboarding = "complete" <=> Children!Made # {}
\* What is changed is a learner; one that was not made has had no change.
Changeable ==
  /\ \A p \in Procs : work[p].at = "update" => work[p].learner \in Children!Made
  /\ \A l \in NewLearners \ Children!Made : told[l].changes = 0
\* Of requests that follow each other, what one read of a learner still holds.
ChildReadsNow(w) ==
  w.at = "update" => /\ learner[w.learner].version = w.expected
                     /\ w.changed <=> w.name # learner[w.learner].name
ChildInTurn ==
  calm => /\ \A p, q \in Procs : work[p] # Children!Idle /\ work[q] # Children!Idle => p = q
          /\ \A p \in Procs : ChildReadsNow(work[p])

ChildInv == ChildShaped /\ Keyed /\ NamesApart /\ Onboarded /\ Changeable /\ ChildInTurn /\ Children!ChangesAreKept

LEMMA ChildKinds ==
  ASSUME ChildInv, NEW p \in Procs
  PROVE  /\ work[p] = Children!Idle <=> work[p].at = "idle"
         /\ work[p].at = "create" => work[p] \in Creating
         /\ work[p].at = "update" => work[p] \in Updating
BY DEF ChildInv, ChildShaped, Creating, Updating, Children!Idle

LEMMA Made0 ==
  ASSUME NEW l \in NewLearners
  PROVE  l \in Children!Made <=> learner[l].version > 0
BY DEF Children!Made

\* A request comes, or a statement is run: of requests that follow each other, it is alone.
LEMMA Arrives ==
  ASSUME ChildInv, NEW p \in Procs, NEW w \in Creating \cup Updating, Children!Arrive(p, w)
  PROVE  /\ work' \in [Procs -> Creating \cup Updating \cup {Children!Idle}] /\ calm' \in BOOLEAN /\ (calm' => calm)
         /\ \A q \in Procs : work'[q] = IF q = p THEN w ELSE work[q]
         /\ calm' => \A q \in Procs : work[q] = Children!Idle
<1>1. work \in [Procs -> Creating \cup Updating \cup {Children!Idle}] /\ calm \in BOOLEAN
  BY DEF ChildInv, ChildShaped, Children!TypeOK
<1> QED  BY <1>1 DEF Children!Arrive

LEMMA ChildBeginStep ==
  ASSUME Named, ChildInv, NEW p \in Procs, Children!Begin(p)
  PROVE  ChildInv'
<1>1. ASSUME NEW k \in Keys, NEW n \in Names, Children!CreateRead(p, k, n)
      PROVE  ChildInv'
  <2> DEFINE w == [at |-> "create", key |-> k, name |-> n]
  <2>1. w \in Creating /\ w.at = "create"
    BY DEF Creating
  <2>2. Children!Arrive(p, w) /\ UNCHANGED <<account, onboarding, learner, creations, updates, told>>
    BY <1>1 DEF Children!CreateRead
  <2> HIDE DEF w
  <2>3. /\ work' \in [Procs -> Creating \cup Updating \cup {Children!Idle}] /\ calm' \in BOOLEAN
        /\ (calm' => calm)
        /\ \A q \in Procs : work'[q] = IF q = p THEN w ELSE work[q]
        /\ calm' => \A q \in Procs : work[q] = Children!Idle
    BY <2>1, <2>2, Arrives
  <2>4. Children!Made' = Children!Made
    BY <2>2 DEF Children!Made
  <2>5. ChildShaped' /\ Keyed' /\ NamesApart' /\ Onboarded'
    BY <2>2, <2>3, <2>4 DEF ChildInv, ChildShaped, Children!TypeOK, Keyed, NamesApart, Onboarded
  <2>6. Changeable'
    BY <2>1, <2>2, <2>3, <2>4 DEF ChildInv, Changeable
  <2>7. calm' => \A q \in Procs : work'[q] = IF q = p THEN w ELSE Children!Idle
    BY <2>3
  <2>8. ChildInTurn'
    BY <2>1, <2>7 DEF ChildInTurn, ChildReadsNow, Children!Idle
  <2>9. Children!ChangesAreKept'
    BY <2>2, <2>3, <2>4 DEF ChildInv, Children!ChangesAreKept
  <2> QED  BY <2>5, <2>6, <2>8, <2>9 DEF ChildInv
<1>2. ASSUME NEW l \in NewLearners, NEW k \in Keys, NEW n \in Names, NEW v \in 1..MaxVersion,
             Children!UpdateRead(p, l, k, n, v)
      PROVE  ChildInv'
  <2>0. PICK b \in BOOLEAN : b = (n # learner[l].name)
    OBVIOUS
  <2> DEFINE w == [at |-> "update", learner |-> l, key |-> k, name |-> n, expected |-> v, changed |-> b]
  <2>1. w \in Updating /\ w.at = "update" /\ w.learner = l /\ w.expected = v /\ w.changed = b /\ w.name = n
    BY DEF Updating
  <2>2. /\ Children!Arrive(p, w) /\ l \in Children!Made /\ v = learner[l].version
        /\ UNCHANGED <<account, onboarding, learner, creations, updates, told>>
    BY <1>2, <2>0 DEF Children!UpdateRead, Children!SameVersion
  <2> HIDE DEF w
  <2>3. /\ work' \in [Procs -> Creating \cup Updating \cup {Children!Idle}] /\ calm' \in BOOLEAN
        /\ (calm' => calm)
        /\ \A q \in Procs : work'[q] = IF q = p THEN w ELSE work[q]
        /\ calm' => \A q \in Procs : work[q] = Children!Idle
    BY <2>1, <2>2, Arrives
  <2>4. Children!Made' = Children!Made
    BY <2>2 DEF Children!Made
  <2>5. ChildShaped' /\ Keyed' /\ NamesApart' /\ Onboarded'
    BY <2>2, <2>3, <2>4 DEF ChildInv, ChildShaped, Children!TypeOK, Keyed, NamesApart, Onboarded
  <2>6. Changeable'
    BY <2>1, <2>2, <2>3, <2>4 DEF ChildInv, Changeable
  <2>7. calm' => \A q \in Procs : work'[q] = IF q = p THEN w ELSE Children!Idle
    BY <2>3
  <2>8. ChildInTurn'
    <3>1. ChildReadsNow(w)'
      BY <2>0, <2>1, <2>2 DEF ChildReadsNow
    <3>2. ASSUME calm', NEW q \in Procs
          PROVE  ChildReadsNow(work[q])'
      <4>1. CASE q = p
        <5>1. work'[q] = w
          BY <2>3, <4>1
        <5> QED  BY <3>1, <5>1 DEF ChildReadsNow
      <4>2. CASE q # p
        <5>1. work'[q] = Children!Idle
          BY <2>7, <3>2, <4>2
        <5> QED  BY <5>1 DEF ChildReadsNow, Children!Idle
      <4> QED  BY <4>1, <4>2
    <3> QED  BY <2>7, <3>2 DEF ChildInTurn
  <2>9. Children!ChangesAreKept'
    BY <2>2, <2>3, <2>4 DEF ChildInv, Children!ChangesAreKept
  <2> QED  BY <2>5, <2>6, <2>8, <2>9 DEF ChildInv
<1> QED  BY <1>1, <1>2 DEF Children!Begin

LEMMA ChildEnds ==
  ASSUME ChildInv, NEW p \in Procs, work[p] # Children!Idle, Children!Done(p)
  PROVE  /\ work' \in [Procs -> Creating \cup Updating \cup {Children!Idle}]
         /\ \A q \in Procs : work'[q] = IF q = p THEN Children!Idle ELSE work[q]
         /\ calm => \A q \in Procs : work'[q] = Children!Idle
<1>1. work \in [Procs -> Creating \cup Updating \cup {Children!Idle}]
  BY DEF ChildInv, ChildShaped
<1>2. \A q \in Procs : work'[q] = IF q = p THEN Children!Idle ELSE work[q]
  BY <1>1 DEF Children!Done
<1> QED  BY <1>1, <1>2 DEF Children!Done, ChildInv, ChildInTurn

LEMMA AllIdle ==
  ASSUME calm' => \A q \in Procs : work'[q] = Children!Idle
  PROVE  ChildInTurn'
<1>1. ASSUME calm', NEW q \in Procs
      PROVE  ChildReadsNow(work[q])'
  <2>1. work'[q] = Children!Idle
    BY <1>1
  <2> QED  BY <2>1 DEF ChildReadsNow, Children!Idle
<1> QED  BY <1>1 DEF ChildInTurn

LEMMA CreateStep ==
  ASSUME Named, ChildInv, NEW p \in Procs, NEW l \in NewLearners, Children!CreateLearner(p, l)
  PROVE  ChildInv'
<1>1. PICK k \in Keys, n \in Names : k = work[p].key /\ n = work[p].name
  BY ChildKinds DEF Children!CreateLearner, Creating
<1> DEFINE row == [name |-> n, version |-> 1, unlimited |-> FALSE]
           line == [told[l] EXCEPT !.name = n]
<1>2. /\ work[p].at = "create" /\ creations[k] = Children!None /\ l \notin Children!Made
      /\ Children!NameIsFree(n, l)
      /\ learner' = [learner EXCEPT ![l] = row] /\ creations' = [creations EXCEPT ![k] = l]
      /\ onboarding' = "complete" /\ told' = [told EXCEPT ![l] = line] /\ Children!Done(p)
      /\ UNCHANGED <<account, updates, calm>>
  BY <1>1 DEF Children!CreateLearner, Children!NewKey
<1>3. told[l] \in [changes : Nat, name : Names \cup {Children!None}] /\ told[l].changes = 0
  BY <1>2 DEF ChildInv, ChildShaped, Children!TypeOK, Changeable
<1>4. /\ row \in Children!Rows /\ row.version = 1 /\ row.name = n
      /\ line \in [changes : Nat, name : Names \cup {Children!None}] /\ line.changes = 0 /\ line.name = n
  BY <1>3 DEF Children!Rows, Named
<1> HIDE DEF row, line
<1>5. /\ learner' \in [NewLearners -> Children!Rows]
      /\ told' \in [NewLearners -> [changes : Nat, name : Names \cup {Children!None}]]
      /\ creations' \in [Keys -> NewLearners \cup {Children!None}]
      /\ \A m \in NewLearners : /\ learner'[m] = IF m = l THEN row ELSE learner[m]
                             /\ told'[m] = IF m = l THEN line ELSE told[m]
      /\ \A j \in Keys : creations'[j] = IF j = k THEN l ELSE creations[j]
  BY <1>2, <1>4 DEF ChildInv, ChildShaped, Children!TypeOK
<1>6. Children!Made' = Children!Made \cup {l}
  BY <1>4, <1>5 DEF Children!Made
<1>7. /\ work' \in [Procs -> Creating \cup Updating \cup {Children!Idle}]
      /\ \A q \in Procs : work'[q] = IF q = p THEN Children!Idle ELSE work[q]
      /\ calm => \A q \in Procs : work'[q] = Children!Idle
  BY <1>2, ChildEnds, ChildKinds
<1>8. Keyed'
  <2>1. \A j \in Keys : creations[j] # l
    BY <1>2 DEF ChildInv, Keyed, Named
  <2>2. \A j \in Keys : creations'[j] # Children!None => creations'[j] \in Children!Made'
    BY <1>5, <1>6 DEF ChildInv, Keyed
  <2>3. \A m \in Children!Made' : \E j \in Keys : creations'[j] = m
    BY <1>2, <1>5, <1>6 DEF ChildInv, Keyed, Named, Children!Made
  <2>4. \A i, j \in Keys : creations'[i] = creations'[j] /\ creations'[i] # Children!None => i = j
    BY <1>5, <2>1 DEF ChildInv, Keyed
  <2> QED  BY <2>2, <2>3, <2>4 DEF Keyed
<1>9. NamesApart'
  BY <1>2, <1>4, <1>5, <1>6 DEF ChildInv, NamesApart, Children!NameIsFree, Children!Made
<1>10. Onboarded'
  BY <1>2, <1>6 DEF Onboarded
<1>11. Changeable'
  BY <1>3, <1>5, <1>6, <1>7 DEF ChildInv, Changeable, Children!Idle
<1>12. ChildInTurn'
  BY <1>2, <1>7, AllIdle
<1>13. Children!ChangesAreKept'
  BY <1>2, <1>4, <1>5, <1>6 DEF ChildInv, Children!ChangesAreKept, Children!Made
<1> QED
  BY <1>2, <1>5, <1>7, <1>8, <1>9, <1>10, <1>11, <1>12, <1>13 DEF ChildInv, ChildShaped, Children!TypeOK

\* A learner's row, name and changes move together, or not at all.
LEMMA ChangeStep ==
  ASSUME Named, ChildInv, NEW l \in Children!Made, NEW row \in Children!Rows,
         NEW line \in [changes : Nat, name : Names \cup {Children!None}],
         learner' = [learner EXCEPT ![l] = row], told' = [told EXCEPT ![l] = line],
         row.version >= learner[l].version, Children!NameIsFree(row.name, l),
         UNCHANGED <<onboarding, creations, account>>, updates' \in [NewLearners \X Keys -> 0..MaxVersion],
         work' \in [Procs -> Creating \cup Updating \cup {Children!Idle}],
         \A q \in Procs : work'[q] = work[q] \/ work'[q] = Children!Idle,
         calm' \in BOOLEAN, calm' => calm,
         calm' => \A q \in Procs : work'[q] = Children!Idle,
         calm' => row.version = 1 + line.changes /\ row.name = line.name
  PROVE  ChildInv'
<1>1. l \in NewLearners /\ learner[l].version \in Nat /\ learner[l].version > 0 /\ row.version \in Nat
      /\ learner \in [NewLearners -> Children!Rows]
      /\ told \in [NewLearners -> [changes : Nat, name : Names \cup {Children!None}]]
  BY DEF Children!Made, Children!Rows, ChildInv, ChildShaped, Children!TypeOK
<1>2. /\ learner' \in [NewLearners -> Children!Rows]
      /\ told' \in [NewLearners -> [changes : Nat, name : Names \cup {Children!None}]]
      /\ \A m \in NewLearners : /\ learner'[m] = IF m = l THEN row ELSE learner[m]
                             /\ told'[m] = IF m = l THEN line ELSE told[m]
  BY <1>1
<1>3. Children!Made' = Children!Made
  BY <1>1, <1>2 DEF Children!Made
<1>4. ChildShaped' /\ Keyed' /\ Onboarded'
  BY <1>2, <1>3 DEF ChildInv, ChildShaped, Children!TypeOK, Keyed, Onboarded
<1>5. NamesApart'
  BY <1>2, <1>3 DEF ChildInv, NamesApart, Children!NameIsFree, Children!Made
<1>6. Changeable'
  <2>1. \A q \in Procs : work'[q].at = "update" => work'[q].learner \in Children!Made'
    BY <1>3 DEF ChildInv, Changeable, Children!Idle
  <2>2. \A m \in NewLearners \ Children!Made' : told'[m].changes = 0
    BY <1>2, <1>3 DEF ChildInv, Changeable
  <2> QED  BY <2>1, <2>2 DEF Changeable
<1>7. ChildInTurn'
  BY AllIdle
<1>8. Children!ChangesAreKept'
  BY <1>2, <1>3 DEF ChildInv, Children!ChangesAreKept, Children!Made
<1> QED  BY <1>4, <1>5, <1>6, <1>7, <1>8 DEF ChildInv

\* A name that a learner has is free for it.
LEMMA OwnName ==
  ASSUME ChildInv, NEW l \in Children!Made
  PROVE  Children!NameIsFree(learner[l].name, l)
BY DEF ChildInv, NamesApart, Children!NameIsFree

LEMMA UpdateStep ==
  ASSUME Named, ChildInv, NEW p \in Procs, Children!UpdateLearner(p)
  PROVE  ChildInv'
<1>1. PICK l \in Children!Made, k \in Keys, n \in Names, v \in 1..MaxVersion, b \in BOOLEAN :
        work[p] = [at |-> "update", learner |-> l, key |-> k, name |-> n, expected |-> v, changed |-> b]
  <2>1. work[p] \in Updating /\ work[p].learner \in Children!Made
    BY ChildKinds DEF Children!UpdateLearner, ChildInv, Changeable
  <2> QED  BY <2>1 DEF Updating
<1>2. /\ work[p].at = "update" /\ work[p].learner = l /\ work[p].key = k /\ work[p].name = n
      /\ work[p].expected = v /\ work[p].changed = b
  BY <1>1
<1> DEFINE found == b /\ learner[l].version = v
           row == [learner[l] EXCEPT !.name = n, !.version = learner[l].version + 1]
           line == [changes |-> told[l].changes + 1, name |-> n]
<1>3. /\ found => Children!NameIsFree(n, l) /\ learner[l].version < MaxVersion
      /\ learner' = IF found THEN [learner EXCEPT ![l] = row] ELSE learner
      /\ updates' = [updates EXCEPT ![<<l, k>>] = learner'[l].version]
      /\ told' = IF b THEN [told EXCEPT ![l] = line] ELSE told
      /\ Children!Done(p) /\ UNCHANGED <<account, onboarding, creations, calm>>
  BY <1>2 DEF Children!UpdateLearner
<1>4. /\ l \in NewLearners /\ learner[l] \in Children!Rows /\ learner[l].version \in 0..MaxVersion
      /\ told[l] \in [changes : Nat, name : Names \cup {Children!None}] /\ MaxVersion \in Nat
      /\ learner \in [NewLearners -> Children!Rows]
      /\ told \in [NewLearners -> [changes : Nat, name : Names \cup {Children!None}]]
  BY DEF Children!Made, Children!Rows, ChildInv, ChildShaped, Children!TypeOK, Named
<1>5. /\ work' \in [Procs -> Creating \cup Updating \cup {Children!Idle}]
      /\ \A q \in Procs : work'[q] = work[q] \/ work'[q] = Children!Idle
      /\ calm' => calm /\ \A q \in Procs : work'[q] = Children!Idle
      /\ calm' \in BOOLEAN
  BY <1>2, <1>3, ChildEnds, ChildKinds DEF ChildInv, ChildShaped, Children!TypeOK
<1>6. calm => learner[l].version = v /\ (b <=> n # learner[l].name)
  BY <1>2 DEF ChildInv, ChildInTurn, ChildReadsNow
<1>7. calm => learner[l].version = 1 + told[l].changes /\ learner[l].name = told[l].name
  BY DEF ChildInv, Children!ChangesAreKept
<1>8. PICK row1 \in Children!Rows : row1 = IF found THEN row ELSE learner[l]
  <2>1. ASSUME found
        PROVE  row \in Children!Rows
    <3>1. learner[l].version + 1 \in 0..MaxVersion
      BY <1>3, <1>4, <2>1
    <3>2. PICK c \in Children!Rows : c = learner[l]
      BY <1>4
    <3>3. [c EXCEPT !.name = n, !.version = c.version + 1] \in Children!Rows
      BY <3>1, <3>2 DEF Children!Rows
    <3> QED  BY <3>2, <3>3
  <2> HIDE DEF found, row
  <2> QED  BY <1>4, <2>1
<1>9. PICK line1 \in [changes : Nat, name : Names \cup {Children!None}] : line1 = IF b THEN line ELSE told[l]
  <2>1. line \in [changes : Nat, name : Names \cup {Children!None}]
    BY <1>4
  <2> HIDE DEF line
  <2> QED  BY <1>4, <2>1
<1>10. learner' = [learner EXCEPT ![l] = row1] /\ told' = [told EXCEPT ![l] = line1]
  <2>1. learner = [learner EXCEPT ![l] = learner[l]] /\ told = [told EXCEPT ![l] = told[l]]
    BY <1>4
  <2> HIDE DEF row, line
  <2> QED  BY <1>3, <1>8, <1>9, <2>1
<1>11. row1.version >= learner[l].version /\ Children!NameIsFree(row1.name, l)
  <2>1. CASE found
    BY <1>3, <1>4, <1>8, <2>1 DEF Children!Rows
  <2>2. CASE ~found
    BY <1>4, <1>8, <2>2, OwnName
  <2> QED  BY <2>1, <2>2
<1>12. calm => row1.version = 1 + line1.changes /\ row1.name = line1.name
  <2>1. CASE b
    BY <1>4, <1>6, <1>7, <1>8, <1>9, <2>1 DEF Children!Rows
  <2>2. CASE ~b
    BY <1>4, <1>6, <1>7, <1>8, <1>9, <2>2 DEF Children!Rows
  <2> QED  BY <2>1, <2>2
<1>13. updates' \in [NewLearners \X Keys -> 0..MaxVersion]
  <2>1. learner'[l] = row1 /\ row1.version \in 0..MaxVersion
    BY <1>4, <1>10 DEF Children!Rows
  <2> QED  BY <1>3, <1>4, <2>1 DEF ChildInv, ChildShaped, Children!TypeOK
<1> HIDE DEF found, row, line
<1> QED  BY <1>3, <1>5, <1>10, <1>11, <1>12, <1>13, ChangeStep

LEMMA LimitStep ==
  ASSUME Named, ChildInv, NEW l \in NewLearners, NEW v \in 1..MaxVersion, NEW u \in BOOLEAN,
         Children!SetLearnerSessionLimitOverride(l, v, u)
  PROVE  ChildInv'
<1> DEFINE row == [learner[l] EXCEPT !.unlimited = u, !.version = learner[l].version + 1]
           line == [told[l] EXCEPT !.changes = @ + 1]
<1>1. /\ l \in Children!Made /\ learner[l].version < MaxVersion
      /\ learner' = [learner EXCEPT ![l] = row] /\ told' = [told EXCEPT ![l] = line]
      /\ calm' = (calm /\ \A q \in Procs : work[q] = Children!Idle)
      /\ UNCHANGED <<account, onboarding, creations, updates, work>>
  BY DEF Children!SetLearnerSessionLimitOverride
<1>2. /\ learner[l] \in Children!Rows /\ learner[l].version \in 0..MaxVersion /\ MaxVersion \in Nat
      /\ told[l] \in [changes : Nat, name : Names \cup {Children!None}] /\ calm \in BOOLEAN
  BY DEF Children!Rows, ChildInv, ChildShaped, Children!TypeOK, Named
<1>3. row \in Children!Rows /\ row.version = learner[l].version + 1 /\ row.name = learner[l].name
  <2>1. learner[l].version + 1 \in 0..MaxVersion
    BY <1>1, <1>2
  <2>2. PICK c \in Children!Rows : c = learner[l]
    BY <1>2
  <2> DEFINE r == [c EXCEPT !.unlimited = u, !.version = c.version + 1]
  <2>3. r \in Children!Rows /\ r.version = c.version + 1 /\ r.name = c.name
    BY <2>1, <2>2 DEF Children!Rows
  <2> QED  BY <2>2, <2>3
<1>4. /\ line \in [changes : Nat, name : Names \cup {Children!None}] /\ line.changes = told[l].changes + 1
      /\ line.name = told[l].name
  BY <1>2
<1> HIDE DEF row, line
<1>5. row.version >= learner[l].version /\ Children!NameIsFree(row.name, l)
  BY <1>1, <1>2, <1>3, OwnName
<1>6. calm' => calm /\ row.version = 1 + line.changes /\ row.name = line.name
  BY <1>1, <1>2, <1>3, <1>4 DEF ChildInv, Children!ChangesAreKept
<1>7. /\ calm' => \A q \in Procs : work'[q] = Children!Idle
      /\ \A q \in Procs : work'[q] = work[q] \/ work'[q] = Children!Idle
      /\ calm' \in BOOLEAN /\ updates' \in [NewLearners \X Keys -> 0..MaxVersion]
      /\ work' \in [Procs -> Creating \cup Updating \cup {Children!Idle}]
  BY <1>1, <1>2 DEF ChildInv, ChildShaped, Children!TypeOK
<1> QED  BY <1>1, <1>3, <1>4, <1>5, <1>6, <1>7, ChangeStep

LEMMA OtherStep ==
  ASSUME Named, ChildInv,
         Children!DeleteAccount \/ (\E p \in Procs : Children!Abandon(p)) \/ UNCHANGED Children!vars
  PROVE  ChildInv'
<1>1. UNCHANGED <<onboarding, learner, creations, updates, told, calm>> /\ account' \in {"active", "deleted"}
  BY DEF Children!DeleteAccount, Children!Abandon, Children!vars, ChildInv, ChildShaped, Children!TypeOK
<1>2. /\ work' \in [Procs -> Creating \cup Updating \cup {Children!Idle}]
      /\ \A q \in Procs : work'[q] = work[q] \/ work'[q] = Children!Idle
  <2>1. CASE \E p \in Procs : Children!Abandon(p)
    BY <2>1, ChildEnds DEF Children!Abandon
  <2>2. CASE Children!DeleteAccount \/ UNCHANGED Children!vars
    BY <2>2 DEF Children!DeleteAccount, Children!vars, ChildInv, ChildShaped
  <2> QED  BY <2>1, <2>2
<1>3. Children!Made' = Children!Made
  BY <1>1 DEF Children!Made
<1>4. ChildShaped' /\ Keyed' /\ NamesApart' /\ Onboarded' /\ Children!ChangesAreKept'
  BY <1>1, <1>2, <1>3 DEF ChildInv, ChildShaped, Children!TypeOK, Keyed, NamesApart, Onboarded,
     Children!ChangesAreKept
<1>5. Changeable'
  BY <1>1, <1>2, <1>3 DEF ChildInv, Changeable, Children!Idle
<1>6. ChildInTurn'
  BY <1>1, <1>2 DEF ChildInv, ChildInTurn, ChildReadsNow, Children!Idle
<1> QED  BY <1>4, <1>5, <1>6 DEF ChildInv

LEMMA ChildInitHolds == Named /\ Children!Init => ChildInv
<1> SUFFICES ASSUME Named, Children!Init
             PROVE  ChildInv
  OBVIOUS
<1>1. /\ Children!Made = {} /\ \A p \in Procs : work[p] = Children!Idle
      /\ \A k \in Keys : creations[k] = Children!None
  BY DEF Children!Init, Children!Made
<1>2. ChildShaped
  BY DEF Children!Init, ChildShaped, Children!TypeOK, Children!Rows, Named
<1>3. Keyed /\ NamesApart /\ Children!ChangesAreKept
  BY <1>1 DEF Keyed, NamesApart, Children!ChangesAreKept
<1>4. Onboarded /\ Changeable
  BY <1>1 DEF Children!Init, Onboarded, Changeable, Children!Idle
<1>5. ChildInTurn
  BY <1>1 DEF ChildInTurn, ChildReadsNow, Children!Idle
<1> QED  BY <1>2, <1>3, <1>4, <1>5 DEF ChildInv

LEMMA ChildNextHolds == Named /\ ChildInv /\ [Children!Next]_(Children!vars) => ChildInv'
<1> SUFFICES ASSUME Named, ChildInv, [Children!Next]_(Children!vars)
             PROVE  ChildInv'
  OBVIOUS
<1> QED  BY ChildBeginStep, CreateStep, UpdateStep, LimitStep, OtherStep DEF Children!Next, Children!Continue

LEMMA ChildInvSuffices == Named /\ ChildInv => Children!LearnersAreKept
<1> SUFFICES ASSUME Named, ChildInv
             PROVE  Children!LearnersAreKept
  OBVIOUS
<1>1. ASSUME NEW l \in Children!Made
      PROVE  Cardinality({k \in Keys : creations[k] = l}) = 1 /\ Children!NameIsFree(learner[l].name, l)
  <2>1. PICK k \in Keys : creations[k] = l
    BY DEF ChildInv, Keyed
  <2>2. l # Children!None
    BY DEF Named, Children!Made
  <2>3. {j \in Keys : creations[j] = l} = {k}
    BY <2>1, <2>2 DEF ChildInv, Keyed
  <2>4. Cardinality({k}) = 1
    BY FS_Singleton
  <2> QED  BY <2>3, <2>4, OwnName
<1> QED  BY <1>1, ChildCounts DEF ChildInv, Onboarded, Children!LearnersAreKept, Children!OneLearnerPerKey

\* A key makes one learner whatever overlaps, and of requests that follow each other no acknowledged
\* change is lost (learner-repo.ts).
THEOREM LearnersStay == ASSUME Named PROVE Children!Spec => []Children!LearnersAreKept
<1> QED
  BY ChildInitHolds, ChildNextHolds, ChildInvSuffices, PTL DEF Children!Spec

-----------------------------------------------------------------------------
(* The browsers in learner mode. *)
CONSTANTS Devices, Learners, Passkeys, Challenges
VARIABLES signedIn, selected, context, passkey, challenge, uses

Modes == INSTANCE LearnerMode

\* What the names of the model have apart.
ModeNamed ==
  /\ Modes!Nobody \notin Learners /\ Modes!Parent \notin Learners
  /\ Modes!Nobody \notin Passkeys /\ Modes!Direct \notin Passkeys
  /\ MaxVersion \in Nat

Entering == [at : {"options", "direct"}, device : Devices, learner : Learners]
Answering == [at : {"register", "registered", "verify", "verified"}, device : Devices,
              learner : Learners, challenge : Challenges, key : Passkeys]
ModeLeaving  == [at : {"exit", "left"}, device : Devices, learner : Learners]
Revoking == [at : {"revoke"}, device : Devices, key : Passkeys]
Busy == Entering \cup Answering \cup ModeLeaving \cup Revoking

ModeShaped == Modes!TypeOK /\ work \in [Procs -> Busy \cup {Modes!Idle}]

\* A challenge is a learner's, and was not accepted unless it is consumed.
ModeCounted ==
  \A h \in Challenges : /\ uses[h] <= 1
                        /\ challenge[h].state # "consumed" => uses[h] = 0
                        /\ challenge[h].state # "none" => challenge[h].learner \in Learners
\* No generation is told before it begins.
Ahead == \A d \in Devices, g \in 0..MaxVersion : g > context[d].version => told[d][g] = {}
ModeKeyed == \A k \in Passkeys : passkey[k].status = "active" => passkey[k].reason # "parent_revoked"
\* Of requests that follow each other, one is under way, and what it read still holds.
OneAtATime == \A p, q \in Procs : work[p] # Modes!Idle /\ work[q] # Modes!Idle => p = q
ModeReadsNow(w) ==
  /\ w # Modes!Idle => account = "active"
  /\ w.at = "verified" => passkey[w.key].status = "active"
  /\ w.at = "left" => context[w.device].status = "revoked" /\ context[w.device].reason = "parent_exit"
ModeInTurn == calm => OneAtATime /\ \A p \in Procs : ModeReadsNow(work[p])

Held == Modes!ModeIsBacked /\ Modes!GenerationNamesMode
ModeInv == ModeShaped /\ ModeCounted /\ Ahead /\ ModeKeyed /\ ModeInTurn /\ Held

\* The kinds of requests are told apart by where they are.
LEMMA ModeKinds ==
  ASSUME NEW w \in Busy \cup {Modes!Idle}
  PROVE  /\ w = Modes!Idle <=> w.at = "idle"
         /\ w.at \in {"options", "direct"} => w \in Entering
         /\ w.at \in {"register", "registered", "verify", "verified"} => w \in Answering
         /\ w.at \in {"exit", "left"} => w \in ModeLeaving
         /\ w.at = "revoke" => w \in Revoking
BY DEF Busy, Modes!Idle, Entering, Answering, ModeLeaving, Revoking

LEMMA ModeIs ==
  ASSUME ModeNamed, ModeShaped, NEW d \in Devices
  PROVE  /\ Modes!Mode(d) # Modes!Nobody => account = "active"
         /\ Modes!Mode(d) \in Learners => context[d].status = "active" /\ Modes!Mode(d) = context[d].learner
         /\ Modes!Mode(d) = Modes!Parent => context[d].status # "active"
         /\ account = "active" /\ context[d].status = "active" => Modes!Mode(d) = context[d].learner
         /\ account = "active" /\ context[d].status = "revoked" /\ context[d].reason = "parent_exit"
              => Modes!Mode(d) = Modes!Parent
<1>1. PICK c \in Modes!Contexts : c = context[d]
  BY DEF ModeShaped, Modes!TypeOK
<1>2. c.status \in {"none", "active", "revoked"} /\ c.learner \in Learners \cup {Modes!Nobody}
  BY DEF Modes!Contexts
<1>3. Modes!Nobody # Modes!Parent
  BY DEF Modes!Nobody, Modes!Parent
<1>4. CASE account # "active"
  BY <1>3, <1>4 DEF Modes!Mode, ModeNamed
<1>5. CASE account = "active" /\ c.status = "none"
  BY <1>1, <1>3, <1>5 DEF Modes!Mode, ModeNamed
<1>6. CASE account = "active" /\ c.status = "revoked"
  BY <1>1, <1>3, <1>6 DEF Modes!Mode, ModeNamed
<1>7. CASE account = "active" /\ c.status = "active"
  BY <1>1, <1>2, <1>3, <1>7 DEF Modes!Mode, ModeNamed
<1> QED  BY <1>2, <1>4, <1>5, <1>6, <1>7

\* A request begins: of requests that follow each other, it is the only one.
LEMMA ModeArrives ==
  ASSUME ModeNamed, ModeInv, NEW p \in Procs, NEW d \in Devices, NEW w \in Busy, Modes!Arrive(p, d, w),
         Modes!Mode(d) # Modes!Nobody,
         w.at \notin {"verified", "left"}, UNCHANGED <<account, passkey, context>>
  PROVE  /\ work' \in [Procs -> Busy \cup {Modes!Idle}] /\ calm' \in BOOLEAN /\ ModeInTurn' /\ (calm' => calm)
<1>1. account = "active" /\ w # Modes!Idle
  BY ModeIs, ModeKinds DEF ModeInv, Busy, Modes!Idle, Entering, Answering, ModeLeaving, Revoking
<1>2. work \in [Procs -> Busy \cup {Modes!Idle}] /\ work' = [work EXCEPT ![p] = w]
      /\ calm' = (calm /\ \A q \in Procs : work[q] = Modes!Idle) /\ calm \in BOOLEAN
  BY DEF ModeInv, ModeShaped, Modes!TypeOK, Modes!Arrive
<1>3. work' \in [Procs -> Busy \cup {Modes!Idle}] /\ calm' \in BOOLEAN /\ (calm' => calm)
  BY <1>2
<1>4. \A q \in Procs : work'[q] = IF q = p THEN w ELSE work[q]
  BY <1>2
<1>5. calm' => OneAtATime'
  BY <1>2, <1>4 DEF OneAtATime
<1>6. ASSUME calm', NEW q \in Procs
      PROVE  ModeReadsNow(work[q])'
  <2>1. CASE q = p
    BY <1>1, <1>4, <2>1 DEF ModeReadsNow
  <2>2. CASE q # p
    <3>1. work[q] = Modes!Idle
      BY <1>2, <1>6
    <3>2. work'[q] = Modes!Idle
      BY <1>4, <2>2, <3>1
    <3> QED  BY <3>2 DEF ModeReadsNow, Modes!Idle
  <2> QED  BY <2>1, <2>2
<1> QED  BY <1>3, <1>5, <1>6 DEF ModeInTurn

LEMMA Finishes ==
  ASSUME ModeInv, NEW p \in Procs, Modes!Done(p)
  PROVE  /\ work' \in [Procs -> Busy \cup {Modes!Idle}]
         /\ \A q \in Procs : work'[q] = IF q = p THEN Modes!Idle ELSE work[q]
BY DEF ModeInv, ModeShaped, Modes!Done

\* A request that is under way goes on alone, or ends.
LEMMA GoesOn ==
  ASSUME ModeInv, NEW p \in Procs, NEW w \in Busy \cup {Modes!Idle}, work[p] # Modes!Idle,
         work' = [work EXCEPT ![p] = w], UNCHANGED calm, calm => ModeReadsNow(w)'
  PROVE  work' \in [Procs -> Busy \cup {Modes!Idle}] /\ ModeInTurn'
<1>1. work \in [Procs -> Busy \cup {Modes!Idle}]
  BY DEF ModeInv, ModeShaped
<1>2. /\ work' \in [Procs -> Busy \cup {Modes!Idle}]
      /\ \A q \in Procs : work'[q] = IF q = p THEN w ELSE work[q]
  BY <1>1
<1>3. ASSUME calm, NEW q \in Procs, q # p
      PROVE  work'[q] = Modes!Idle
  BY <1>2, <1>3 DEF ModeInv, ModeInTurn, OneAtATime
<1>4. calm => OneAtATime'
  BY <1>3 DEF OneAtATime
<1>5. ASSUME calm, NEW q \in Procs
      PROVE  ModeReadsNow(work[q])'
  <2>1. CASE q = p
    <3>1. work'[q] = w
      BY <1>2, <2>1
    <3> QED  BY <1>5, <3>1 DEF ModeReadsNow
  <2>2. CASE q # p
    <3>1. work'[q] = Modes!Idle
      BY <1>3, <1>5, <2>2
    <3> QED  BY <3>1 DEF ModeReadsNow, Modes!Idle
  <2> QED  BY <2>1, <2>2
<1> QED  BY <1>2, <1>4, <1>5 DEF ModeInTurn

\* A request that is one transaction, among others, is not one of requests that follow each other.
LEMMA AtOnceInTurn ==
  ASSUME ModeInv, UNCHANGED work, calm' = (calm /\ \A q \in Procs : work[q] = Modes!Idle)
  PROVE  ModeInTurn' /\ (calm' => calm) /\ calm' \in BOOLEAN
<1>1. calm \in BOOLEAN
  BY DEF ModeInv, ModeShaped, Modes!TypeOK
<1>2. ASSUME calm', NEW q \in Procs
      PROVE  work'[q] = Modes!Idle
  BY <1>2
<1>3. calm' => OneAtATime'
  BY <1>2 DEF OneAtATime
<1>4. ASSUME calm', NEW q \in Procs
      PROVE  ModeReadsNow(work[q])'
  <2>1. work'[q] = Modes!Idle
    BY <1>2, <1>4
  <2> QED  BY <2>1 DEF ModeReadsNow, Modes!Idle
<1> QED  BY <1>1, <1>3, <1>4 DEF ModeInTurn

LEMMA SameMode ==
  ASSUME NEW d \in Devices, context'[d] = context[d], UNCHANGED account
  PROVE  Modes!Mode(d)' = Modes!Mode(d)
BY DEF Modes!Mode

\* Nothing becomes of the rows of the browsers, and no passkey of one is revoked by the parent.
LEMMA HeldStays ==
  ASSUME ModeInv, UNCHANGED <<account, context, told>>, calm' => calm,
         \A d \in Devices : context[d].status = "active" => selected'[d] = selected[d],
         \A k \in Passkeys : passkey'[k].reason = "parent_revoked" => passkey[k].reason = "parent_revoked"
  PROVE  Ahead' /\ Held'
<1>1. \A d \in Devices : Modes!Mode(d)' = Modes!Mode(d)
  BY SameMode
<1>2. Ahead'
  BY DEF ModeInv, Ahead
<1>3. Modes!ModeIsBacked'
  BY DEF ModeInv, Held, Modes!ModeIsBacked
<1>4. Modes!GenerationNamesMode'
  BY <1>1 DEF ModeInv, Held, Modes!GenerationNamesMode
<1> QED  BY <1>2, <1>3, <1>4 DEF Held

\* Modes end: a row is left alone, or revoked with the next generation.
EndedOrKept(d) ==
  \/ context'[d] = context[d]
  \/ /\ context[d].status = "active" /\ context'[d].status = "revoked"
     /\ context'[d].version = context[d].version + 1

LEMMA ModesEnd ==
  ASSUME ModeNamed, ModeInv, context' \in [Devices -> Modes!Contexts], \A d \in Devices : EndedOrKept(d),
         UNCHANGED <<told, selected>>, calm' => calm,
         \/ UNCHANGED account
         \/ account' # "active" /\ \A d \in Devices : context'[d].status # "active",
         \A d \in Devices : \A k \in Passkeys :
           context'[d].status = "active" /\ context'[d].key = k =>
             (passkey'[k].reason = "parent_revoked" => passkey[k].reason = "parent_revoked")
  PROVE  Ahead' /\ Held'
<1>1. \A d \in Devices : context[d].version \in 0..MaxVersion /\ context'[d].version \in 0..MaxVersion
  BY DEF ModeInv, ModeShaped, Modes!TypeOK, Modes!Contexts
<1>2. \A d \in Devices : /\ context'[d].version >= context[d].version
                         /\ context'[d].status = "active" => context'[d] = context[d]
  BY <1>1 DEF EndedOrKept
<1>3. Ahead'
  BY <1>1, <1>2 DEF ModeInv, Ahead
<1>4. Modes!ModeIsBacked'
  <2> SUFFICES ASSUME calm', NEW d \in Devices, context'[d].status = "active"
               PROVE  /\ selected'[d] = context'[d].learner
                      /\ account' = "active"
                      /\ context'[d].key \in Passkeys => passkey'[context'[d].key].reason # "parent_revoked"
    BY DEF Modes!ModeIsBacked
  <2>1. context'[d] = context[d] /\ account' = account /\ calm
    BY <1>2
  <2> QED  BY <2>1 DEF ModeInv, Held, Modes!ModeIsBacked
<1>5. Modes!GenerationNamesMode'
  <2> SUFFICES ASSUME calm', NEW d \in Devices, Modes!Mode(d)' # Modes!Nobody
               PROVE  told'[d][context'[d].version] \subseteq {Modes!Mode(d)'}
    BY DEF Modes!GenerationNamesMode
  <2>1. account' = account
    BY DEF Modes!Mode
  <2>2. CASE context'[d] = context[d]
    <3>1. Modes!Mode(d)' = Modes!Mode(d)
      BY <2>1, <2>2, SameMode
    <3> QED  BY <2>2, <3>1 DEF ModeInv, Held, Modes!GenerationNamesMode
  <2>3. CASE context'[d].version = context[d].version + 1
    <3>1. context'[d].version > context[d].version
      BY <1>1, <2>3
    <3>2. told[d][context'[d].version] = {}
      BY <1>1, <3>1 DEF ModeInv, Ahead
    <3> QED  BY <3>2
  <2> QED  BY <2>2, <2>3 DEF EndedOrKept
<1> QED  BY <1>3, <1>4, <1>5 DEF Held

LEMMA Tells ==
  ASSUME ModeShaped, NEW d \in Devices, NEW mode \in Learners \cup {Modes!Parent}, Modes!Tell(d, mode),
         NEW g \in 0..MaxVersion, g = context'[d].version, NEW e \in Devices, NEW i \in 0..MaxVersion
  PROVE  /\ told' \in [Devices -> [0..MaxVersion -> SUBSET (Learners \cup {Modes!Parent})]]
         /\ e = d /\ i = g => told'[e][i] = told[e][i] \cup {mode}
         /\ ~(e = d /\ i = g) => told'[e][i] = told[e][i]
<1> DEFINE modes == Learners \cup {Modes!Parent}
           line == told[d]
           new == [line EXCEPT ![g] = @ \cup {mode}]
<1>1. told \in [Devices -> [0..MaxVersion -> SUBSET modes]] /\ line \in [0..MaxVersion -> SUBSET modes]
  BY DEF ModeShaped, Modes!TypeOK
<1>2. told' = [told EXCEPT ![d] = new]
  BY DEF Modes!Tell
<1> HIDE DEF modes
<1>3. new \in [0..MaxVersion -> SUBSET modes]
  <2>1. line[g] \cup {mode} \in SUBSET modes
    BY <1>1 DEF modes
  <2> HIDE DEF line
  <2> QED  BY <1>1, <2>1
<1>4. new[i] = IF i = g THEN line[i] \cup {mode} ELSE line[i]
  <2> HIDE DEF line
  <2> QED  BY <1>1
<1> HIDE DEF new
<1>5. told' \in [Devices -> [0..MaxVersion -> SUBSET modes]]
  BY <1>1, <1>2, <1>3
<1>6. told'[e] = IF e = d THEN new ELSE told[e]
  BY <1>1, <1>2
<1> QED  BY <1>4, <1>5, <1>6 DEF modes

-----------------------------------------------------------------------------
(* The requests that come. *)

LEMMA SelectStep ==
  ASSUME ModeNamed, ModeInv, NEW p \in Procs, NEW d \in Devices, NEW l \in Learners,
         Modes!EnterOptions(p, d, l) \/ Modes!EnterDirectly(p, d, l)
  PROVE  ModeInv'
<1>1. PICK next \in {"options", "direct"} : Modes!Select(p, d, l, next)
  BY DEF Modes!EnterOptions, Modes!EnterDirectly
<1> DEFINE w == [at |-> next, device |-> d, learner |-> l]
<1>2. w \in Busy /\ w.at \notin {"verified", "left"}
  BY DEF Busy, Entering
<1>3. /\ Modes!Mode(d) = Modes!Parent /\ Modes!Arrive(p, d, w) /\ selected' = [selected EXCEPT ![d] = l]
      /\ UNCHANGED <<account, signedIn, context, passkey, challenge, uses, told>>
  BY <1>1 DEF Modes!Select, Modes!ArriveAsParent
<1> HIDE DEF w
<1>4. Modes!Mode(d) # Modes!Nobody /\ context[d].status # "active"
  BY <1>3, ModeIs DEF ModeInv, Modes!Nobody, Modes!Parent
<1>5. work' \in [Procs -> Busy \cup {Modes!Idle}] /\ calm' \in BOOLEAN /\ ModeInTurn' /\ (calm' => calm)
  BY <1>2, <1>3, <1>4, ModeArrives
<1>6. \A e \in Devices : selected'[e] = IF e = d THEN l ELSE selected[e]
  BY <1>3 DEF ModeInv, ModeShaped, Modes!TypeOK
<1>7. Ahead' /\ Held'
  BY <1>3, <1>4, <1>5, <1>6, HeldStays
<1>8. selected' \in [Devices -> Learners \cup {Modes!Nobody}] /\ DOMAIN work' = Procs
  BY <1>3, <1>5 DEF ModeInv, ModeShaped, Modes!TypeOK
<1> QED  BY <1>3, <1>5, <1>7, <1>8 DEF ModeInv, ModeShaped, Modes!TypeOK, ModeCounted, ModeKeyed

LEMMA AskStep ==
  ASSUME ModeNamed, ModeInv, NEW p \in Procs, NEW d \in Devices, NEW w \in Busy,
         w.at \notin {"verified", "left"},
         Modes!Arrive(p, d, w), Modes!Mode(d) # Modes!Nobody,
         UNCHANGED <<account, signedIn, selected, context, passkey, challenge, uses, told>>
  PROVE  ModeInv'
<1>1. work' \in [Procs -> Busy \cup {Modes!Idle}] /\ calm' \in BOOLEAN /\ ModeInTurn' /\ (calm' => calm)
  BY ModeArrives
<1>2. Ahead' /\ Held'
  BY <1>1, HeldStays
<1> QED  BY <1>1, <1>2 DEF ModeInv, ModeShaped, Modes!TypeOK, ModeCounted, ModeKeyed

LEMMA ModeBeginStep ==
  ASSUME ModeNamed, ModeInv, NEW p \in Procs, Modes!Begin(p)
  PROVE  ModeInv'
<1>1. Modes!Parent # Modes!Nobody
  BY DEF Modes!Parent, Modes!Nobody
<1>2. ASSUME NEW d \in Devices, NEW l \in Learners, Modes!EnterOptions(p, d, l) \/ Modes!EnterDirectly(p, d, l)
      PROVE  ModeInv'
  BY <1>2, SelectStep
<1>3. ASSUME NEW d \in Devices, NEW h \in Challenges, NEW k \in Passkeys,
             Modes!VerifyRegistration(p, d, h, k) \/ Modes!VerifyAuthentication(p, d, h, k)
      PROVE  ModeInv'
  <2>1. PICK next \in {"register", "verify"} : Modes!Answer(p, d, h, k, next)
    BY <1>3 DEF Modes!VerifyRegistration, Modes!VerifyAuthentication
  <2> DEFINE w == [at |-> next, device |-> d, learner |-> challenge[h].learner, challenge |-> h, key |-> k]
  <2>2. challenge[h].learner \in Learners
    BY <2>1 DEF Modes!Answer, ModeInv, ModeCounted
  <2>3. w \in Busy /\ w.at \notin {"verified", "left"}
    BY <2>2 DEF Busy, Answering
  <2>4. /\ Modes!Mode(d) = Modes!Parent /\ Modes!Arrive(p, d, w)
        /\ UNCHANGED <<account, signedIn, selected, context, passkey, challenge, uses, told>>
    BY <2>1 DEF Modes!Answer, Modes!ArriveAsParent
  <2> HIDE DEF w
  <2> QED  BY <1>1, <2>3, <2>4, AskStep
<1>4. ASSUME NEW d \in Devices, Modes!ExitRequest(p, d)
      PROVE  ModeInv'
  <2> DEFINE w == [at |-> "exit", device |-> d, learner |-> Modes!Mode(d)]
  <2>1. Modes!Mode(d) # Modes!Nobody /\ w \in Busy /\ w.at \notin {"verified", "left"}
    BY <1>4 DEF Modes!ExitRequest, Busy, ModeLeaving, ModeNamed
  <2>2. Modes!Arrive(p, d, w) /\ UNCHANGED <<account, signedIn, selected, context, passkey, challenge, uses, told>>
    BY <1>4 DEF Modes!ExitRequest
  <2> HIDE DEF w
  <2> QED  BY <2>1, <2>2, AskStep
<1>5. ASSUME NEW d \in Devices, NEW k \in Passkeys, Modes!RevokePasskeyRequest(p, d, k)
      PROVE  ModeInv'
  <2> DEFINE w == [at |-> "revoke", device |-> d, key |-> k]
  <2>1. w \in Busy /\ w.at \notin {"verified", "left"}
    BY DEF Busy, Revoking
  <2>2. /\ Modes!Mode(d) = Modes!Parent /\ Modes!Arrive(p, d, w)
        /\ UNCHANGED <<account, signedIn, selected, context, passkey, challenge, uses, told>>
    BY <1>5 DEF Modes!RevokePasskeyRequest, Modes!ArriveAsParent
  <2> HIDE DEF w
  <2> QED  BY <1>1, <2>1, <2>2, AskStep
<1> QED  BY <1>2, <1>3, <1>4, <1>5 DEF Modes!Begin

-----------------------------------------------------------------------------
(* Challenges and passkeys. *)

LEMMA Stored ==
  ASSUME ModeInv, NEW h \in Challenges, NEW purpose \in {"registration", "authentication"},
         NEW d \in Devices, NEW l \in Learners, Modes!StoreChallenge(h, purpose, d, l), UNCHANGED uses
  PROVE  challenge' \in [Challenges -> Modes!ChallengeRows] /\ ModeCounted'
<1> DEFINE row == [state |-> "open", purpose |-> purpose, device |-> d, learner |-> l]
<1>1. row \in Modes!ChallengeRows /\ row.state = "open" /\ row.learner \in Learners
  BY DEF Modes!ChallengeRows
<1>2. challenge \in [Challenges -> Modes!ChallengeRows] /\ challenge' = [challenge EXCEPT ![h] = row]
      /\ challenge[h].state = "none"
  BY DEF ModeInv, ModeShaped, Modes!TypeOK, Modes!StoreChallenge
<1> HIDE DEF row
<1>3. challenge' \in [Challenges -> Modes!ChallengeRows]
      /\ \A g \in Challenges : challenge'[g] = IF g = h THEN row ELSE challenge[g]
  BY <1>1, <1>2
<1>4. ModeCounted'
  BY <1>1, <1>2, <1>3 DEF ModeInv, ModeCounted
<1> QED  BY <1>3, <1>4

\* What a request under way has been made of.
LEMMA UnderWay ==
  ASSUME ModeInv, NEW p \in Procs, work[p].at # "idle"
  PROVE  /\ work[p] # Modes!Idle /\ work[p] \in Busy
         /\ work[p].at \in {"options", "direct"} => work[p] \in Entering
         /\ work[p].at \in {"register", "registered", "verify", "verified"} => work[p] \in Answering
         /\ work[p].at \in {"exit", "left"} => work[p] \in ModeLeaving
         /\ work[p].at = "revoke" => work[p] \in Revoking
<1>1. work[p] \in Busy \cup {Modes!Idle}
  BY DEF ModeInv, ModeShaped
<1> QED  BY <1>1, ModeKinds

LEMMA ModeEnds ==
  ASSUME ModeInv, NEW p \in Procs, work[p].at # "idle", Modes!Done(p), UNCHANGED calm
  PROVE  work' \in [Procs -> Busy \cup {Modes!Idle}] /\ ModeInTurn'
<1>1. ModeReadsNow(Modes!Idle)'
  BY DEF ModeReadsNow, Modes!Idle
<1> QED  BY <1>1, UnderWay, GoesOn DEF Modes!Done

LEMMA OptionsStep ==
  ASSUME ModeNamed, ModeInv,
         \/ \E p \in Procs, h \in Challenges : Modes!AuthenticationOptions(p, h)
         \/ \E d \in Devices, l \in Learners, h \in Challenges : Modes!RegistrationOptions(d, l, h)
  PROVE  ModeInv'
<1>1. CASE \E p \in Procs, h \in Challenges : Modes!AuthenticationOptions(p, h)
  <2>1. PICK p \in Procs, h \in Challenges : Modes!AuthenticationOptions(p, h)
    BY <1>1
  <2>2. /\ work[p].at = "options" /\ Modes!Done(p)
        /\ Modes!StoreChallenge(h, "authentication", work[p].device, work[p].learner)
        /\ UNCHANGED <<account, signedIn, selected, context, passkey, uses, told, calm>>
    BY <2>1 DEF Modes!AuthenticationOptions
  <2>3. work[p].device \in Devices /\ work[p].learner \in Learners
    BY <2>2, UnderWay DEF Entering
  <2>4. challenge' \in [Challenges -> Modes!ChallengeRows] /\ ModeCounted'
    BY <2>2, <2>3, Stored
  <2>5. work' \in [Procs -> Busy \cup {Modes!Idle}] /\ ModeInTurn'
    BY <2>2, ModeEnds
  <2>6. Ahead' /\ Held'
    BY <2>2, HeldStays
  <2> QED  BY <2>2, <2>4, <2>5, <2>6 DEF ModeInv, ModeShaped, Modes!TypeOK, ModeKeyed
<1>2. CASE \E d \in Devices, l \in Learners, h \in Challenges : Modes!RegistrationOptions(d, l, h)
  <2>1. PICK d \in Devices, l \in Learners, h \in Challenges : Modes!RegistrationOptions(d, l, h)
    BY <1>2
  <2>2. /\ Modes!StoreChallenge(h, "registration", d, l)
        /\ calm' = (calm /\ \A q \in Procs : work[q] = Modes!Idle)
        /\ UNCHANGED <<account, signedIn, selected, context, passkey, work, uses, told>>
    BY <2>1 DEF Modes!RegistrationOptions, Modes!AtOnce
  <2>3. challenge' \in [Challenges -> Modes!ChallengeRows] /\ ModeCounted'
    BY <2>2, Stored
  <2>4. ModeInTurn' /\ (calm' => calm) /\ calm' \in BOOLEAN
    BY <2>2, AtOnceInTurn
  <2>5. Ahead' /\ Held'
    BY <2>2, <2>4, HeldStays
  <2> QED  BY <2>2, <2>3, <2>4, <2>5 DEF ModeInv, ModeShaped, Modes!TypeOK, ModeKeyed
<1> QED  BY <1>1, <1>2

\* A challenge is accepted once.
LEMMA Consumed ==
  ASSUME ModeInv, NEW p \in Procs, work[p] \in Answering, NEW purpose, Modes!ConsumeChallenge(p, purpose)
  PROVE  /\ challenge' \in [Challenges -> Modes!ChallengeRows] /\ uses' \in [Challenges -> Nat] /\ ModeCounted'
<1> DEFINE h == work[p].challenge
           row == [challenge[h] EXCEPT !.state = "consumed"]
<1>1. /\ h \in Challenges /\ challenge[h] \in Modes!ChallengeRows /\ challenge[h].state = "open"
      /\ challenge' = [challenge EXCEPT ![h] = row] /\ uses' = [uses EXCEPT ![h] = @ + 1]
      /\ challenge \in [Challenges -> Modes!ChallengeRows] /\ uses \in [Challenges -> Nat]
  BY DEF Modes!ConsumeChallenge, Modes!Unused, Answering, ModeInv, ModeShaped, Modes!TypeOK
<1>2. row \in Modes!ChallengeRows /\ row.state = "consumed" /\ row.learner = challenge[h].learner
  BY <1>1 DEF Modes!ChallengeRows
<1> HIDE DEF row, h
<1>3. /\ challenge' \in [Challenges -> Modes!ChallengeRows] /\ uses' \in [Challenges -> Nat]
      /\ \A g \in Challenges : /\ challenge'[g] = IF g = h THEN row ELSE challenge[g]
                               /\ uses'[g] = IF g = h THEN uses[g] + 1 ELSE uses[g]
  BY <1>1, <1>2
<1>4. uses[h] = 0
  BY <1>1 DEF ModeInv, ModeCounted
<1>5. ModeCounted'
  BY <1>1, <1>2, <1>3, <1>4 DEF ModeInv, ModeCounted
<1> QED  BY <1>3, <1>5

LEMMA ConsumeStep ==
  ASSUME ModeNamed, ModeInv, NEW p \in Procs, Modes!RegistrationConsumes(p) \/ Modes!AuthenticationConsumes(p)
  PROVE  ModeInv'
<1> DEFINE w == work[p]
<1>1. PICK next \in {Modes!Idle, [w EXCEPT !.at = "registered"], [w EXCEPT !.at = "verified"]} :
        /\ w.at \in {"register", "verify"} /\ work' = [work EXCEPT ![p] = next]
        /\ next = [w EXCEPT !.at = "verified"] => passkey[w.key].status = "active"
        /\ \E purpose \in {"registration", "authentication"} : Modes!ConsumeChallenge(p, purpose)
        /\ UNCHANGED <<account, signedIn, selected, context, passkey, told, calm>>
  <2>1. CASE Modes!RegistrationConsumes(p)
    <3>1. [w EXCEPT !.at = "registered"].at # [w EXCEPT !.at = "verified"].at
      BY <2>1, UnderWay DEF Modes!RegistrationConsumes, Answering
    <3> QED  BY <2>1, <3>1 DEF Modes!RegistrationConsumes
  <2>2. CASE Modes!AuthenticationConsumes(p)
    <3>1. CASE passkey[w.key].status = "active" /\ passkey[w.key].learner = w.learner
      BY <2>2, <3>1 DEF Modes!AuthenticationConsumes
    <3>2. CASE ~(passkey[w.key].status = "active" /\ passkey[w.key].learner = w.learner)
      <4>1. Modes!Idle # [w EXCEPT !.at = "verified"]
        BY <2>2, UnderWay DEF Modes!AuthenticationConsumes, Answering, Modes!Idle
      <4> QED  BY <2>2, <3>2, <4>1 DEF Modes!AuthenticationConsumes
    <3> QED  BY <3>1, <3>2
  <2> QED  BY <2>1, <2>2
<1>2. w # Modes!Idle /\ w \in Answering /\ w.at # "idle"
  BY <1>1, UnderWay
<1>3. next \in Busy \cup {Modes!Idle}
  BY <1>1, <1>2 DEF Busy, Answering
<1>4. /\ next.at \in {"idle", "registered", "verified"}
      /\ next.at = "verified" => next.key = w.key /\ next = [w EXCEPT !.at = "verified"]
  BY <1>1, <1>2 DEF Answering, Modes!Idle
<1> HIDE DEF w
<1>5. challenge' \in [Challenges -> Modes!ChallengeRows] /\ uses' \in [Challenges -> Nat] /\ ModeCounted'
  BY <1>1, <1>2, Consumed DEF w
<1>6. calm => ModeReadsNow(next)'
  <2>1. calm => account = "active"
    BY <1>2 DEF ModeInv, ModeInTurn, ModeReadsNow, w
  <2> QED  BY <1>1, <1>4, <2>1 DEF ModeReadsNow
<1>7. work' \in [Procs -> Busy \cup {Modes!Idle}] /\ ModeInTurn'
  BY <1>1, <1>2, <1>3, <1>6, GoesOn DEF w
<1>8. Ahead' /\ Held'
  BY <1>1, HeldStays
<1> QED  BY <1>1, <1>5, <1>7, <1>8 DEF ModeInv, ModeShaped, Modes!TypeOK, ModeKeyed

LEMMA PasskeyStep ==
  ASSUME ModeNamed, ModeInv, NEW p \in Procs, Modes!RegistrationStores(p) \/ Modes!CloneSuspected(p)
  PROVE  ModeInv'
<1> DEFINE k == work[p].key
           made == [status |-> "active", learner |-> work[p].learner, reason |-> "none"]
           doubted == [passkey[k] EXCEPT !.status = "revoked", !.reason = "clone_suspected"]
<1>1. /\ work[p].at \in {"registered", "verified"} /\ Modes!Done(p)
      /\ passkey' = [passkey EXCEPT ![k] = made] \/ passkey' = [passkey EXCEPT ![k] = doubted]
      /\ UNCHANGED <<account, signedIn, selected, context, challenge, uses, told, calm>>
  BY DEF Modes!RegistrationStores, Modes!CloneSuspected
<1>2. work[p] \in Answering
  BY <1>1, UnderWay
<1>3. /\ k \in Passkeys /\ work[p].learner \in Learners
      /\ passkey \in [Passkeys -> Modes!Credentials] /\ passkey[k] \in Modes!Credentials
  BY <1>2 DEF Answering, ModeInv, ModeShaped, Modes!TypeOK
<1>4. /\ made \in Modes!Credentials /\ made.reason = "none"
      /\ doubted \in Modes!Credentials /\ doubted.status = "revoked" /\ doubted.reason = "clone_suspected"
  BY <1>3 DEF Modes!Credentials
<1> HIDE DEF made, doubted, k
<1>5. PICK row \in {made, doubted} : passkey' = [passkey EXCEPT ![k] = row]
  BY <1>1
<1>6. /\ passkey' \in [Passkeys -> Modes!Credentials]
      /\ \A j \in Passkeys : passkey'[j] = IF j = k THEN row ELSE passkey[j]
  BY <1>3, <1>4, <1>5
<1>7. ModeKeyed'
  BY <1>4, <1>6 DEF ModeInv, ModeKeyed
<1>8. work' \in [Procs -> Busy \cup {Modes!Idle}] /\ ModeInTurn'
  BY <1>1, ModeEnds
<1>9. Ahead' /\ Held'
  BY <1>1, <1>4, <1>6, HeldStays
<1> QED  BY <1>1, <1>6, <1>7, <1>8, <1>9 DEF ModeInv, ModeShaped, Modes!TypeOK, ModeCounted

-----------------------------------------------------------------------------
(* The rows of the browsers. *)

LEMMA EnterStep ==
  ASSUME ModeNamed, ModeInv, NEW p \in Procs, Modes!AuthenticationEnters(p) \/ Modes!DirectEnters(p)
  PROVE  ModeInv'
<1>0. PICK d \in Devices, l \in Learners : d = work[p].device /\ l = work[p].learner
  BY UnderWay DEF Modes!AuthenticationEnters, Modes!DirectEnters, Entering, Answering
<1>1. PICK k \in Passkeys \cup {Modes!Direct} :
        /\ work[p].at \in {"verified", "direct"} /\ Modes!ActivateLearnerMode(p, k)
        /\ k # Modes!Direct => work[p].at = "verified" /\ k = work[p].key
        /\ (account = "active" /\ Modes!Tell(d, l)) \/ (account # "active" /\ UNCHANGED told)
  <2>1. work[p].at = "verified" => work[p].key \in Passkeys
    BY UnderWay DEF Answering
  <2> QED  BY <1>0, <2>1 DEF Modes!AuthenticationEnters, Modes!DirectEnters
<1>2. PICK v \in 0..MaxVersion : v = context[d].version
  BY DEF ModeInv, ModeShaped, Modes!TypeOK, Modes!Contexts
<1> DEFINE row == [status |-> "active", learner |-> l, key |-> k, reason |-> "none", version |-> v + 1]
<1>3. /\ selected[d] = l /\ v < MaxVersion /\ context' = [context EXCEPT ![d] = row] /\ Modes!Done(p)
      /\ UNCHANGED <<signedIn, account, selected, passkey, challenge, uses, calm>>
  BY <1>0, <1>1, <1>2 DEF Modes!ActivateLearnerMode, Modes!IsSelected, Modes!Activated
<1>4. context \in [Devices -> Modes!Contexts] /\ v \in 0..MaxVersion /\ v + 1 \in 0..MaxVersion /\ v + 1 > v
  BY <1>2, <1>3 DEF ModeInv, ModeShaped, Modes!TypeOK, Modes!Contexts, ModeNamed
<1>5. row \in Modes!Contexts
  BY <1>4 DEF Modes!Contexts, Modes!Reasons
<1>6. row.status = "active" /\ row.learner = l /\ row.key = k /\ row.version = v + 1
  OBVIOUS
<1> HIDE DEF row
<1>7. /\ context' \in [Devices -> Modes!Contexts]
      /\ \A e \in Devices : context'[e] = IF e = d THEN row ELSE context[e]
  BY <1>3, <1>4, <1>5
<1>8. work' \in [Procs -> Busy \cup {Modes!Idle}] /\ ModeInTurn'
  <2>1. work[p].at # "idle"
    BY <1>1
  <2> QED  BY <1>3, <2>1, ModeEnds
<1>9. told[d][v + 1] = {}
  BY <1>2, <1>4 DEF ModeInv, Ahead
<1>10. Modes!Mode(d)' = (IF account = "active" THEN l ELSE Modes!Nobody)
  BY <1>3, <1>6, <1>7 DEF Modes!Mode
<1>11. \A e \in Devices : e # d => Modes!Mode(e)' = Modes!Mode(e)
  BY <1>3, <1>7, SameMode
<1>12. /\ told' \in [Devices -> [0..MaxVersion -> SUBSET (Learners \cup {Modes!Parent})]]
       /\ \A e \in Devices, i \in 0..MaxVersion :
            told'[e][i] = IF e = d /\ i = v + 1 /\ account = "active" THEN {l} ELSE told[e][i]
  <2>1. CASE account = "active" /\ Modes!Tell(d, l)
    <3>1. context'[d].version = v + 1
      BY <1>6, <1>7
    <3>2. ModeShaped
      BY DEF ModeInv
    <3>3. PICK g \in 0..MaxVersion : g = v + 1 /\ g = context'[d].version
      BY <1>4, <3>1
    <3>4. ASSUME NEW e \in Devices, NEW i \in 0..MaxVersion
          PROVE  /\ told' \in [Devices -> [0..MaxVersion -> SUBSET (Learners \cup {Modes!Parent})]]
                 /\ e = d /\ i = g => told'[e][i] = told[e][i] \cup {l}
                 /\ ~(e = d /\ i = g) => told'[e][i] = told[e][i]
      BY <2>1, <3>2, <3>3, Tells
    <3>5. told' \in [Devices -> [0..MaxVersion -> SUBSET (Learners \cup {Modes!Parent})]]
      BY <3>4
    <3>6. ASSUME NEW e \in Devices, NEW i \in 0..MaxVersion
          PROVE  told'[e][i] = IF e = d /\ i = v + 1 /\ account = "active" THEN {l} ELSE told[e][i]
      <4>1. CASE e = d /\ i = g
        <5>1. told'[e][i] = told[e][i] \cup {l}
          BY <3>4, <4>1
        <5>2. told[e][i] = {}
          BY <1>9, <3>3, <4>1
        <5> QED  BY <2>1, <3>3, <4>1, <5>1, <5>2
      <4>2. CASE ~(e = d /\ i = g)
        BY <3>3, <3>4, <4>2
      <4> QED  BY <4>1, <4>2
    <3> QED  BY <3>5, <3>6
  <2>2. CASE account # "active" /\ UNCHANGED told
    BY <2>2 DEF ModeInv, ModeShaped, Modes!TypeOK
  <2> QED  BY <1>1, <2>1, <2>2
<1>13. Ahead'
  <2> SUFFICES ASSUME NEW e \in Devices, NEW i \in 0..MaxVersion, i > context'[e].version
               PROVE  told'[e][i] = {}
    BY DEF Ahead
  <2>1. CASE e = d
    <3>1. i > v + 1 /\ i > v /\ v = context[d].version
      BY <1>2, <1>4, <1>6, <1>7, <2>1
    <3> QED  BY <1>12, <2>1, <3>1 DEF ModeInv, Ahead
  <2>2. CASE e # d
    BY <1>7, <1>12, <2>2 DEF ModeInv, Ahead
  <2> QED  BY <2>1, <2>2
<1>14. Modes!ModeIsBacked'
  <2> SUFFICES ASSUME calm', NEW e \in Devices, context'[e].status = "active"
               PROVE  /\ selected'[e] = context'[e].learner
                      /\ account' = "active"
                      /\ context'[e].key \in Passkeys => passkey'[context'[e].key].reason # "parent_revoked"
    BY DEF Modes!ModeIsBacked
  <2>1. CASE e = d
    <3>1. account = "active" /\ (work[p].at = "verified" => passkey[work[p].key].status = "active")
      BY <1>1, <1>3, UnderWay DEF ModeInv, ModeInTurn, ModeReadsNow
    <3>2. k \in Passkeys => passkey[k].reason # "parent_revoked"
      BY <1>1, <3>1 DEF ModeInv, ModeKeyed, ModeNamed
    <3> QED  BY <1>3, <1>6, <1>7, <2>1, <3>1, <3>2
  <2>2. CASE e # d
    BY <1>3, <1>7, <2>2 DEF ModeInv, Held, Modes!ModeIsBacked
  <2> QED  BY <2>1, <2>2
<1>15. Modes!GenerationNamesMode'
  <2> SUFFICES ASSUME calm', NEW e \in Devices, Modes!Mode(e)' # Modes!Nobody
               PROVE  told'[e][context'[e].version] \subseteq {Modes!Mode(e)'}
    BY DEF Modes!GenerationNamesMode
  <2>1. CASE e = d
    <3>1. account = "active" /\ Modes!Mode(e)' = l
      BY <1>10, <2>1
    <3> QED  BY <1>4, <1>6, <1>7, <1>12, <2>1, <3>1
  <2>2. CASE e # d
    <3>1. context'[e] = context[e] /\ Modes!Mode(e)' = Modes!Mode(e) /\ context[e].version \in 0..MaxVersion
      BY <1>4, <1>7, <1>11, <2>2 DEF Modes!Contexts
    <3>2. told'[e][context[e].version] = told[e][context[e].version]
      BY <1>12, <2>2, <3>1
    <3> QED  BY <1>3, <3>1, <3>2 DEF ModeInv, Held, Modes!GenerationNamesMode
  <2> QED  BY <2>1, <2>2
<1> QED
  BY <1>3, <1>7, <1>8, <1>12, <1>13, <1>14, <1>15 DEF ModeInv, ModeShaped, Modes!TypeOK, ModeCounted,
     ModeKeyed, Held

\* A row that is revoked is one of the table, with the next generation.
LEMMA RevokedRow ==
  ASSUME ModeNamed, ModeInv, NEW d \in Devices, NEW reason \in Modes!Reasons,
         context[d].status = "active" => context[d].version < MaxVersion
  PROVE  /\ Modes!Revoked(d, reason) \in Modes!Contexts
         /\ context[d].status # "active" => Modes!Revoked(d, reason) = context[d]
         /\ context[d].status = "active" => /\ Modes!Revoked(d, reason).status = "revoked"
                                            /\ Modes!Revoked(d, reason).reason = reason
                                            /\ Modes!Revoked(d, reason).version = context[d].version + 1
<1>1. PICK c \in Modes!Contexts : c = context[d]
  BY DEF ModeInv, ModeShaped, Modes!TypeOK
<1>2. Modes!Revoked(d, reason) = IF c.status = "active" /\ c.version < MaxVersion
                             THEN [c EXCEPT !.status = "revoked", !.reason = reason, !.version = @ + 1]
                             ELSE c
  BY <1>1 DEF Modes!Revoked
<1>3. c.version \in 0..MaxVersion /\ MaxVersion \in Nat /\ (c.status = "active" => c.version + 1 \in 0..MaxVersion)
  BY <1>1 DEF Modes!Contexts, ModeNamed
<1>4. CASE c.status # "active"
  BY <1>1, <1>2, <1>4
<1>5. CASE c.status = "active"
  <2> DEFINE row == [c EXCEPT !.status = "revoked", !.reason = reason, !.version = c.version + 1]
  <2>1. row \in Modes!Contexts /\ row.status = "revoked" /\ row.reason = reason /\ row.version = c.version + 1
    BY <1>3, <1>5 DEF Modes!Contexts
  <2>2. Modes!Revoked(d, reason) = row
    BY <1>1, <1>2, <1>5
  <2> HIDE DEF row
  <2> QED  BY <1>1, <1>5, <2>1, <2>2
<1> QED  BY <1>4, <1>5

\* The modes of some browsers end.
\* The contexts of these devices end for a reason, and each of them has a version left to end with.
EndsOn(D, reason) ==
  context' = [d \in Devices |-> IF d \in D THEN Modes!Revoked(d, reason) ELSE context[d]]
RoomOn(D) == \A d \in D : context[d].status = "active" => context[d].version < MaxVersion

LEMMA SomeEnd ==
  ASSUME ModeNamed, ModeInv, NEW D \in SUBSET Devices, NEW reason \in Modes!Reasons,
         EndsOn(D, reason), RoomOn(D)
  PROVE  /\ context' \in [Devices -> Modes!Contexts]
         /\ \A d \in Devices : EndedOrKept(d)
         /\ \A d \in D : context'[d].status # "active"
         /\ \A d \in D : context[d].status = "active" =>
              context'[d].status = "revoked" /\ context'[d].reason = reason
         /\ \A d \in Devices \ D : context'[d] = context[d]
<1>1. context \in [Devices -> Modes!Contexts]
  BY DEF ModeInv, ModeShaped, Modes!TypeOK
<1>2. \A d \in D : /\ Modes!Revoked(d, reason) \in Modes!Contexts
                   /\ context[d].status # "active" => Modes!Revoked(d, reason) = context[d]
                   /\ context[d].status = "active" => /\ Modes!Revoked(d, reason).status = "revoked"
                                                      /\ Modes!Revoked(d, reason).reason = reason
                                                      /\ Modes!Revoked(d, reason).version = context[d].version + 1
  BY RevokedRow DEF RoomOn
<1>3. \A d \in Devices : context'[d] = IF d \in D THEN Modes!Revoked(d, reason) ELSE context[d]
  BY DEF EndsOn
<1>4. context' \in [Devices -> Modes!Contexts]
  BY <1>1, <1>2 DEF EndsOn
<1> QED  BY <1>2, <1>3, <1>4 DEF EndedOrKept

LEMMA ReasonsAre ==
  {"parent_exit", "credential_revoked", "parent_logout", "parent_session_revoked"} \subseteq Modes!Reasons
BY DEF Modes!Reasons

LEMMA LeaveStep ==
  ASSUME ModeNamed, ModeInv, NEW p \in Procs, Modes!RevokeLearnerMode(p)
  PROVE  ModeInv'
<1>1. PICK d \in Devices : d = work[p].device /\ work[p] \in ModeLeaving /\ work[p].at = "exit"
  BY UnderWay DEF Modes!RevokeLearnerMode, ModeLeaving
<1>0. PICK next \in ModeLeaving : next = [work[p] EXCEPT !.at = "left"] /\ next.at = "left" /\ next.device = d
  <2> DEFINE n == [work[p] EXCEPT !.at = "left"]
  <2>1. n \in ModeLeaving /\ n.at = "left" /\ n.device = d
    BY <1>1 DEF ModeLeaving
  <2> QED  BY <2>1
<1>2. /\ Modes!Mode(d) = work[p].learner /\ work[p].learner \in Learners /\ context[d].version < MaxVersion
      /\ context' = [context EXCEPT ![d] = Modes!Revoked(d, "parent_exit")]
      /\ work' = [work EXCEPT ![p] = next]
      /\ UNCHANGED <<account, signedIn, selected, passkey, challenge, uses, told, calm>>
  BY <1>0, <1>1 DEF Modes!RevokeLearnerMode, ModeLeaving
<1>3. context[d].status = "active" /\ account = "active"
  BY <1>2, ModeIs DEF ModeInv, ModeNamed
<1>4. EndsOn({d}, "parent_exit") /\ RoomOn({d})
  BY <1>2 DEF EndsOn, RoomOn, ModeInv, ModeShaped, Modes!TypeOK
<1>5. /\ context' \in [Devices -> Modes!Contexts] /\ \A e \in Devices : EndedOrKept(e)
      /\ context'[d].status = "revoked" /\ context'[d].reason = "parent_exit"
      /\ \A e \in Devices : context'[e].status = "active" => context'[e] = context[e]
  <2>1. {d} \in SUBSET Devices /\ "parent_exit" \in Modes!Reasons
    BY ReasonsAre
  <2>2. /\ context' \in [Devices -> Modes!Contexts] /\ \A e \in Devices : EndedOrKept(e)
        /\ \A e \in {d} : context'[e].status # "active"
        /\ \A e \in {d} : context[e].status = "active" =>
             context'[e].status = "revoked" /\ context'[e].reason = "parent_exit"
        /\ \A e \in Devices \ {d} : context'[e] = context[e]
    BY <1>4, <2>1, SomeEnd
  <2> QED  BY <1>3, <2>2
<1>6. next \in Busy
  BY DEF Busy
<1>7. ModeReadsNow(next)'
  BY <1>0, <1>2, <1>3, <1>5 DEF ModeReadsNow
<1>8. work[p] # Modes!Idle
  BY <1>1, UnderWay
<1>9. work' \in [Procs -> Busy \cup {Modes!Idle}] /\ ModeInTurn'
  BY <1>2, <1>6, <1>7, <1>8, GoesOn
<1>10. Ahead' /\ Held'
  BY <1>2, <1>5, ModesEnd
<1> QED  BY <1>2, <1>5, <1>9, <1>10 DEF ModeInv, ModeShaped, Modes!TypeOK, ModeCounted, ModeKeyed

LEMMA ExitAnswerStep ==
  ASSUME ModeNamed, ModeInv, NEW p \in Procs, Modes!ExitAnswer(p)
  PROVE  ModeInv'
<1>1. PICK d \in Devices : d = work[p].device /\ work[p].at = "left"
  BY UnderWay DEF Modes!ExitAnswer, ModeLeaving
<1>2. /\ Modes!Done(p) /\ (UNCHANGED told \/ Modes!Tell(d, Modes!Parent))
      /\ UNCHANGED <<account, signedIn, selected, context, passkey, challenge, uses, calm>>
  BY <1>1 DEF Modes!ExitAnswer
<1>3. work' \in [Procs -> Busy \cup {Modes!Idle}] /\ ModeInTurn'
  BY <1>1, <1>2, ModeEnds
<1>4. CASE UNCHANGED told
  <2>1. Ahead' /\ Held'
    BY <1>2, <1>4, HeldStays
  <2> QED  BY <1>2, <1>3, <1>4, <2>1 DEF ModeInv, ModeShaped, Modes!TypeOK, ModeCounted, ModeKeyed
<1>5. CASE Modes!Tell(d, Modes!Parent)
  <2>1. PICK g \in 0..MaxVersion : g = context[d].version /\ g = context'[d].version
    BY <1>2 DEF ModeInv, ModeShaped, Modes!TypeOK, Modes!Contexts
  <2>2. ASSUME NEW e \in Devices, NEW i \in 0..MaxVersion
        PROVE  /\ told' \in [Devices -> [0..MaxVersion -> SUBSET (Learners \cup {Modes!Parent})]]
               /\ e = d /\ i = g => told'[e][i] = told[e][i] \cup {Modes!Parent}
               /\ ~(e = d /\ i = g) => told'[e][i] = told[e][i]
    BY <1>5, <2>1, Tells DEF ModeInv
  <2>3. \A e \in Devices : Modes!Mode(e)' = Modes!Mode(e) /\ context'[e] = context[e]
    BY <1>2, SameMode
  <2>4. Ahead'
    <3> SUFFICES ASSUME NEW e \in Devices, NEW i \in 0..MaxVersion, i > context'[e].version
                 PROVE  told'[e][i] = {}
      BY DEF Ahead
    <3>1. i > context[e].version /\ ~(e = d /\ i = g)
      BY <2>1, <2>3
    <3> QED  BY <2>2, <3>1 DEF ModeInv, Ahead
  <2>5. Modes!ModeIsBacked'
    BY <1>2 DEF ModeInv, Held, Modes!ModeIsBacked
  <2>6. Modes!GenerationNamesMode'
    <3> SUFFICES ASSUME calm', NEW e \in Devices, Modes!Mode(e)' # Modes!Nobody
                 PROVE  told'[e][context'[e].version] \subseteq {Modes!Mode(e)'}
      BY DEF Modes!GenerationNamesMode
    <3>1. calm /\ told[e][context[e].version] \subseteq {Modes!Mode(e)} /\ Modes!Mode(e)' = Modes!Mode(e)
          /\ context[e].version \in 0..MaxVersion /\ context'[e].version = context[e].version
      BY <1>2, <2>3 DEF ModeInv, Held, Modes!GenerationNamesMode, ModeShaped, Modes!TypeOK, Modes!Contexts
    <3>2. CASE e = d
      <4>1. ModeReadsNow(work[p])
        BY <3>1 DEF ModeInv, ModeInTurn
      <4>2. account = "active" /\ context[d].status = "revoked" /\ context[d].reason = "parent_exit"
        BY <1>1, <4>1, UnderWay DEF ModeReadsNow
      <4>3. Modes!Mode(d) = Modes!Parent
        BY <4>2, ModeIs DEF ModeInv
      <4> QED  BY <2>1, <2>2, <3>1, <3>2, <4>3
    <3>3. CASE e # d
      BY <2>2, <3>1, <3>3
    <3> QED  BY <3>2, <3>3
  <2>7. told' \in [Devices -> [0..MaxVersion -> SUBSET (Learners \cup {Modes!Parent})]]
    BY <2>1, <2>2
  <2> QED
    BY <1>2, <1>3, <2>4, <2>5, <2>6, <2>7 DEF ModeInv, ModeShaped, Modes!TypeOK, ModeCounted, ModeKeyed, Held
<1> QED  BY <1>2, <1>4, <1>5

LEMMA RevokePasskeyStep ==
  ASSUME ModeNamed, ModeInv, NEW p \in Procs, Modes!RevokePasskey(p)
  PROVE  ModeInv'
<1>1. PICK k \in Passkeys : k = work[p].key /\ work[p].at = "revoke"
  BY UnderWay DEF Modes!RevokePasskey, Revoking
<1> DEFINE row == [passkey[k] EXCEPT !.status = "revoked", !.reason = "parent_revoked"]
           D == {d \in Devices : context[d].key = k}
<1>2. /\ Modes!Room /\ passkey' = [passkey EXCEPT ![k] = row] /\ context' = Modes!RevokedByCredential(k)
      /\ Modes!Done(p)
      /\ UNCHANGED <<account, signedIn, selected, challenge, uses, told, calm>>
  BY <1>1 DEF Modes!RevokePasskey
<1>3. EndsOn(D, "credential_revoked")
  BY <1>2 DEF EndsOn, Modes!RevokedByCredential
<1>4. /\ context' \in [Devices -> Modes!Contexts] /\ \A d \in Devices : EndedOrKept(d)
      /\ \A d \in D : context'[d].status # "active"
      /\ \A d \in Devices \ D : context'[d] = context[d]
  <2>1. D \in SUBSET Devices /\ "credential_revoked" \in Modes!Reasons
    BY ReasonsAre
  <2>2. RoomOn(D)
    BY <1>2 DEF RoomOn, Modes!Room
  <2> HIDE DEF D
  <2> QED  BY <1>3, <2>1, <2>2, SomeEnd
<1>5. \A d \in Devices : context'[d].status = "active" => context'[d].key # k
  BY <1>4
<1>6. row \in Modes!Credentials /\ row.status = "revoked"
  BY DEF ModeInv, ModeShaped, Modes!TypeOK, Modes!Credentials
<1> HIDE DEF row, D
<1>7. /\ passkey' \in [Passkeys -> Modes!Credentials]
      /\ \A j \in Passkeys : passkey'[j] = IF j = k THEN row ELSE passkey[j]
  BY <1>2, <1>6 DEF ModeInv, ModeShaped, Modes!TypeOK
<1>8. ModeKeyed'
  BY <1>6, <1>7 DEF ModeInv, ModeKeyed
<1>9. work' \in [Procs -> Busy \cup {Modes!Idle}] /\ ModeInTurn'
  BY <1>1, <1>2, ModeEnds
<1>10. Ahead' /\ Held'
  <2>1. \A d \in Devices : \A j \in Passkeys :
          context'[d].status = "active" /\ context'[d].key = j =>
            (passkey'[j].reason = "parent_revoked" => passkey[j].reason = "parent_revoked")
    BY <1>5, <1>7
  <2> QED  BY <1>2, <1>4, <2>1, ModesEnd
<1> QED  BY <1>2, <1>4, <1>7, <1>8, <1>9, <1>10 DEF ModeInv, ModeShaped, Modes!TypeOK, ModeCounted

\* What ends modes for the whole session or account, in one transaction.
LEMMA EndingStep ==
  ASSUME ModeNamed, ModeInv, NEW d \in Devices,
         Modes!SignOut(d) \/ Modes!ChangePassword(d) \/ Modes!SoftDeleteAccount(d)
  PROVE  ModeInv'
<1>1. PICK D \in SUBSET Devices, reason \in Modes!Reasons :
        /\ context' = [e \in Devices |-> IF e \in D THEN Modes!Revoked(e, reason) ELSE context[e]]
        /\ (UNCHANGED account) \/ (account' = "deleted" /\ D = Devices)
        /\ Modes!Room /\ signedIn' \subseteq signedIn /\ calm' = (calm /\ \A q \in Procs : work[q] = Modes!Idle)
        /\ UNCHANGED <<selected, passkey, challenge, work, uses, told>>
  <2>1. CASE Modes!SignOut(d)
    <3>1. context' = [e \in Devices |-> IF e \in {d} THEN Modes!Revoked(e, "parent_logout") ELSE context[e]]
      BY <2>1 DEF Modes!SignOut, ModeInv, ModeShaped, Modes!TypeOK
    <3> QED  BY <2>1, <3>1, ReasonsAre DEF Modes!SignOut
  <2>2. CASE Modes!ChangePassword(d) \/ Modes!SoftDeleteAccount(d)
    <3>1. context' = [e \in Devices |-> IF e \in Devices THEN Modes!Revoked(e, "parent_session_revoked") ELSE context[e]]
      BY <2>2 DEF Modes!ChangePassword, Modes!SoftDeleteAccount, Modes!RevokedForParent
    <3>2. (UNCHANGED account) \/ account' = "deleted"
      BY <2>2 DEF Modes!ChangePassword, Modes!SoftDeleteAccount
    <3> QED  BY <2>2, <3>1, <3>2, ReasonsAre DEF Modes!ChangePassword, Modes!SoftDeleteAccount, Modes!AtOnce
  <2> QED  BY <2>1, <2>2
<1>2. /\ context' \in [Devices -> Modes!Contexts] /\ \A e \in Devices : EndedOrKept(e)
      /\ \A e \in D : context'[e].status # "active"
  <2>1. D \in SUBSET Devices /\ RoomOn(D)
    BY <1>1 DEF RoomOn, Modes!Room
  <2>2. EndsOn(D, reason)
    BY <1>1 DEF EndsOn
  <2> QED  BY <2>1, <2>2, SomeEnd
<1>3. ModeInTurn' /\ (calm' => calm) /\ calm' \in BOOLEAN
  BY <1>1, AtOnceInTurn
<1>4. Ahead' /\ Held'
  BY <1>1, <1>2, <1>3, ModesEnd
<1>5. account' \in {"active", "deleted"} /\ signedIn' \subseteq Devices
  BY <1>1 DEF ModeInv, ModeShaped, Modes!TypeOK
<1> QED  BY <1>1, <1>2, <1>3, <1>4, <1>5 DEF ModeInv, ModeShaped, Modes!TypeOK, ModeCounted, ModeKeyed

LEMMA ModeAbandonStep ==
  ASSUME ModeNamed, ModeInv, NEW p \in Procs, Modes!Abandon(p)
  PROVE  ModeInv'
<1>1. /\ work[p] # Modes!Idle /\ Modes!Done(p)
      /\ UNCHANGED <<account, signedIn, selected, context, passkey, challenge, uses, told, calm>>
  BY DEF Modes!Abandon
<1>2. work[p].at # "idle"
  BY <1>1, ModeKinds DEF ModeInv, ModeShaped
<1>3. (work' \in [Procs -> Busy \cup {Modes!Idle}] /\ ModeInTurn') /\ (Ahead' /\ Held')
  BY <1>1, <1>2, ModeEnds, HeldStays
<1> QED  BY <1>1, <1>3 DEF ModeInv, ModeShaped, Modes!TypeOK, ModeCounted, ModeKeyed

-----------------------------------------------------------------------------

LEMMA ModeInitHolds == ModeNamed /\ Modes!Init => ModeInv
<1> SUFFICES ASSUME ModeNamed, Modes!Init
             PROVE  ModeInv
  OBVIOUS
<1>1. Modes!NoContext \in Modes!Contexts /\ Modes!NoChallenge \in Modes!ChallengeRows /\ 0 \in 0..MaxVersion
  BY DEF Modes!NoContext, Modes!NoChallenge, Modes!Contexts, Modes!ChallengeRows, Modes!Reasons, ModeNamed
<1>2. Modes!NoPasskey \in Modes!Credentials
      /\ \A l \in Learners : [status |-> "active", learner |-> l, reason |-> "none"] \in Modes!Credentials
  BY DEF Modes!NoPasskey, Modes!Credentials
<1>3. passkey \in [Passkeys -> Modes!Credentials] /\ \A k \in Passkeys : passkey[k].reason = "none"
  BY <1>2 DEF Modes!Init, Modes!NoPasskey
<1>4. ModeShaped /\ \A p \in Procs : work[p] = Modes!Idle
  BY <1>1, <1>3 DEF Modes!Init, ModeShaped, Modes!TypeOK
<1>5. ModeCounted /\ ModeKeyed
  BY <1>3 DEF Modes!Init, ModeCounted, Modes!NoChallenge, ModeKeyed
<1>6. Ahead /\ Modes!GenerationNamesMode
  BY <1>1 DEF Modes!Init, Ahead, Modes!GenerationNamesMode, Modes!NoContext
<1>7. Modes!ModeIsBacked
  BY DEF Modes!Init, Modes!ModeIsBacked, Modes!NoContext
<1>8. ModeInTurn
  BY <1>4 DEF ModeInTurn, OneAtATime, ModeReadsNow, Modes!Idle
<1> QED  BY <1>4, <1>5, <1>6, <1>7, <1>8 DEF ModeInv, Held

LEMMA ModeNextHolds == ModeNamed /\ ModeInv /\ [Modes!Next]_(Modes!vars) => ModeInv'
<1> SUFFICES ASSUME ModeNamed, ModeInv, [Modes!Next]_(Modes!vars)
             PROVE  ModeInv'
  OBVIOUS
<1>1. ASSUME NEW p \in Procs, Modes!Continue(p)
      PROVE  ModeInv'
  BY <1>1, OptionsStep, ConsumeStep, PasskeyStep, EnterStep, LeaveStep, ExitAnswerStep,
     RevokePasskeyStep, ModeAbandonStep DEF Modes!Continue
<1>2. CASE UNCHANGED Modes!vars
  <2>1. ModeInTurn'
    BY <1>2 DEF Modes!vars, ModeInv, ModeInTurn, OneAtATime, ModeReadsNow
  <2>2. Ahead' /\ Held'
    BY <1>2, HeldStays DEF Modes!vars
  <2> QED  BY <1>2, <2>1, <2>2 DEF Modes!vars, ModeInv, ModeShaped, Modes!TypeOK, ModeCounted, ModeKeyed
<1> QED  BY <1>1, <1>2, ModeBeginStep, OptionsStep, EndingStep DEF Modes!Next

LEMMA ModeInvSuffices == ModeInv => Modes!TypeOK /\ Modes!LearnerModeIsHeld
BY DEF ModeInv, ModeShaped, ModeCounted, Modes!ChallengesAreSingleUse, Held, Modes!LearnerModeIsHeld

\* A challenge opens one mode or none, and of requests that follow each other a browser's mode is
\* one that its selection, its passkey and its account back (learner-mode.ts).
THEOREM ModeIsHeld == ASSUME ModeNamed PROVE Modes!Spec => []Modes!LearnerModeIsHeld
<1> QED
  BY ModeInitHolds, ModeNextHolds, ModeInvSuffices, PTL DEF Modes!Spec

-----------------------------------------------------------------------------
(* The staff: the guard of their sessions and the checks of their changes. *)
CONSTANTS Staff, Founders, MaxCodes, MaxChanges
VARIABLES session, codes, changes, fresh, gone

Guard == INSTANCE StaffAccess

\* The platform was bootstrapped, and a batch of codes has a size.
Bootstrapped == Founders # {} /\ Founders \subseteq Staff /\ MaxCodes \in Nat /\ MaxChanges \in Nat

Account  == [status : {"none", "invited", "active", "suspended", "revoked"},
             gen : Nat, roles : SUBSET Guard!Roles, recoveries : Nat]
Accounts == [Staff -> Account]

AdminOf(acc, s) == acc[s].status = "active" /\ Guard!Admin \in acc[s].roles

\* What a request has read, of these accounts: the generation of a login is one they had.
ReadOK(r, acc) == r # Guard!Idle =>
  /\ r.at \in Guard!Kinds /\ r.target \in Staff
  /\ r.at = "login" => /\ r.gen \in Nat /\ r.gen <= acc[r.target].gen
                       /\ acc[r.target].status # "none"
  /\ r.at = "status" => r.new \in {"active", "suspended", "revoked"}
  /\ r.at = "roles" => r.new \in SUBSET Guard!Roles

\* ... and what of it holds until another change is committed: whoever changes a colleague
\* is an active administrator, and another one.
FreshOK(r, acc) ==
  /\ r.at = "accept" => acc[r.target].status = "invited"
  /\ r.at \in {"status", "roles"} => /\ acc[r.target].status \notin {"none", "revoked"}
                                     /\ \E a \in Staff \ {r.target} : AdminOf(acc, a)

Typed ==
  /\ account \in Accounts /\ session \in [Staff -> [gen : Nat, roles : SUBSET Guard!Roles]]
  /\ codes \in 0 .. MaxCodes /\ changes \in 0 .. MaxChanges
  /\ fresh \subseteq Procs /\ gone \subseteq Staff /\ calm \in BOOLEAN
  /\ work = [p \in Procs |-> work[p]]

\* A generation is an account's own, and the roles of a session go with its generation.
Signed == \A s \in Staff :
  /\ account[s].gen >= 1
  /\ session[s].gen <= account[s].gen
  /\ session[s].gen > 0 => account[s].status # "none"
  /\ session[s].gen = account[s].gen => session[s].roles = account[s].roles

Reads == \A p \in Procs : /\ ReadOK(work[p], account)
                          /\ p \in fresh => FreshOK(work[p], account)

Calm == calm => /\ \A s \in gone : account[s].status = "revoked"
                /\ \E a \in Staff : AdminOf(account, a)

StaffInv == Typed /\ Signed /\ Reads /\ Calm

LEMMA StaffInitHolds == Bootstrapped /\ Guard!Init => StaffInv
<1> SUFFICES ASSUME Bootstrapped, Guard!Init PROVE StaffInv
  OBVIOUS
<1>1. Guard!Absent \in Account /\ Guard!Absent.gen = 1 /\ [Guard!Absent EXCEPT !.status = "active", !.roles = Guard!Roles] \in Account
  BY DEF Guard!Absent, Account
<1>2. \A s \in Staff : /\ account[s] \in Account /\ account[s].gen = 1
                       /\ session[s] = Guard!NoSession
                       /\ s \in Founders => account[s].status = "active" /\ account[s].roles = Guard!Roles
  BY <1>1 DEF Guard!Init, Guard!Absent
<1>3. Typed
  BY <1>2 DEF Guard!Init, Typed, Accounts, Guard!NoSession, Bootstrapped
<1>4. Signed
  BY <1>2 DEF Signed, Guard!NoSession
<1>5. Reads
  BY DEF Guard!Init, Reads, ReadOK
<1>6. Calm
  BY <1>2 DEF Guard!Init, Calm, AdminOf, Guard!Roles, Bootstrapped
<1> QED  BY <1>3, <1>4, <1>5, <1>6 DEF StaffInv

LEMMA ReadStays ==
  ASSUME NEW acc \in Accounts, NEW new \in Accounts, NEW r, ReadOK(r, acc),
         \A s \in Staff : new[s].gen >= acc[s].gen /\ (acc[s].status # "none" => new[s].status # "none")
  PROVE  ReadOK(r, new)
<1>1. \A s \in Staff : acc[s].gen \in Nat /\ new[s].gen \in Nat
  BY DEF Accounts, Account
<1> QED  BY <1>1 DEF ReadOK

\* Only accounts that were absent change, but for their generation and recoveries.
Grown(acc, new) == \A s \in Staff :
  /\ new[s].gen >= acc[s].gen
  /\ acc[s].status # "none" => new[s].status = acc[s].status /\ new[s].roles = acc[s].roles

LEMMA FreshStays ==
  ASSUME NEW acc \in Accounts, NEW new \in Accounts, NEW r, r.target \in Staff,
         FreshOK(r, acc), Grown(acc, new)
  PROVE  FreshOK(r, new)
  BY DEF FreshOK, AdminOf, Grown

\* A step that changes no session and no account but absent ones.
LEMMA GrownStep ==
  ASSUME StaffInv, account' \in Accounts, Grown(account, account'), UNCHANGED <<session, gone, calm>>,
         codes' \in 0 .. MaxCodes, changes' \in 0 .. MaxChanges, fresh' \subseteq Procs,
         work' = [p \in Procs |-> work'[p]],
         \A p \in Procs : \/ work'[p] = work[p] /\ (p \in fresh' => p \in fresh)
                          \/ /\ ReadOK(work'[p], account')
                             /\ p \in fresh' => FreshOK(work'[p], account')
  PROVE  StaffInv'
<1>1. Typed'
  BY DEF StaffInv, Typed
<1>2. account \in Accounts /\ session \in [Staff -> [gen : Nat, roles : SUBSET Guard!Roles]]
  BY DEF StaffInv, Typed
<1>3. Signed'
  <2> SUFFICES ASSUME NEW s \in Staff
               PROVE  /\ account'[s].gen >= 1
                      /\ session[s].gen <= account'[s].gen
                      /\ session[s].gen > 0 => account'[s].status # "none"
                      /\ session[s].gen = account'[s].gen => session[s].roles = account'[s].roles
    BY DEF Signed
  <2>1. account[s].gen \in Nat /\ account'[s].gen \in Nat /\ session[s].gen \in Nat
    BY <1>2 DEF Accounts, Account
  <2>2. /\ account[s].gen >= 1 /\ session[s].gen <= account[s].gen
        /\ session[s].gen > 0 => account[s].status # "none"
        /\ session[s].gen = account[s].gen => session[s].roles = account[s].roles
    BY DEF StaffInv, Signed
  <2>3. /\ account'[s].gen >= account[s].gen
        /\ account[s].status # "none" => account'[s].status = account[s].status
                                         /\ account'[s].roles = account[s].roles
    BY DEF Grown
  <2> QED  BY <2>1, <2>2, <2>3
<1>4. Reads'
  <2> SUFFICES ASSUME NEW p \in Procs
               PROVE  ReadOK(work'[p], account') /\ (p \in fresh' => FreshOK(work'[p], account'))
    BY DEF Reads
  <2>1. CASE work'[p] = work[p] /\ (p \in fresh' => p \in fresh)
    <3>1. ReadOK(work[p], account) /\ (p \in fresh => FreshOK(work[p], account))
      BY DEF StaffInv, Reads
    <3>2. \A s \in Staff : account'[s].gen >= account[s].gen
                           /\ (account[s].status # "none" => account'[s].status # "none")
      BY DEF Grown
    <3>3. ReadOK(work[p], account')
      BY <1>2, <3>1, <3>2, ReadStays
    <3>4. ASSUME p \in fresh PROVE FreshOK(work[p], account')
      <4>1. CASE work[p] = Guard!Idle
        BY <4>1 DEF FreshOK, Guard!Idle
      <4>2. CASE work[p] # Guard!Idle
        BY <1>2, <3>1, <3>4, <4>2, FreshStays DEF ReadOK
      <4> QED  BY <4>1, <4>2
    <3> QED  BY <2>1, <3>3, <3>4
  <2> QED  BY <2>1
<1>5. Calm'
  <2>1. gone \subseteq Staff
    BY DEF StaffInv, Typed
  <2> QED  BY <2>1 DEF StaffInv, Calm, Grown, AdminOf
<1> QED  BY <1>1, <1>3, <1>4, <1>5 DEF StaffInv

LEMMA SameAccounts == StaffInv => Grown(account, account)
  BY DEF StaffInv, Typed, Accounts, Account, Grown

\* A request that begins has read the accounts as they are.
LEMMA StaffBeginStep ==
  ASSUME StaffInv, NEW p \in Procs, NEW r, Guard!Begin(p, r), ReadOK(r, account), FreshOK(r, account),
         account' \in Accounts, Grown(account, account'), r # Guard!Idle, r.target \in Staff,
         codes' \in 0 .. MaxCodes, UNCHANGED <<session, changes, gone, calm>>
  PROVE  StaffInv'
<1>1. work' = [work EXCEPT ![p] = r] /\ fresh' \subseteq fresh \cup {p}
  BY DEF Guard!Begin
<1>2. /\ account \in Accounts /\ work = [q \in Procs |-> work[q]] /\ fresh \subseteq Procs
      /\ changes \in 0 .. MaxChanges
  BY DEF StaffInv, Typed
<1>3. ReadOK(r, account')
  BY <1>2, ReadStays DEF Grown
<1>4. FreshOK(r, account')
  BY <1>2, FreshStays
<1>5. work' = [q \in Procs |-> work'[q]] /\ fresh' \subseteq Procs
  BY <1>1, <1>2
<1>6. \A q \in Procs : \/ work'[q] = work[q] /\ (q \in fresh' => q \in fresh)
                       \/ /\ ReadOK(work'[q], account')
                          /\ q \in fresh' => FreshOK(work'[q], account')
  BY <1>1, <1>2, <1>3, <1>4
<1> QED  BY <1>2, <1>5, <1>6, GrownStep

LEMMA Begins ==
  ASSUME StaffInv, NEW p \in Procs, NEW s \in Staff, NEW a \in Staff,
         Guard!BeginAccept(p, s) \/ Guard!BeginLogin(p, s) \/ Guard!BeginStatus(p, a, s) \/ Guard!BeginRoles(p, a, s)
  PROVE  StaffInv'
<1>1. /\ account \in Accounts /\ codes \in 0 .. MaxCodes /\ Grown(account, account)
      /\ account[s].gen \in Nat
  BY SameAccounts DEF StaffInv, Typed, Accounts, Account
<1>2. UNCHANGED <<account, session, codes, changes, gone, calm>>
  BY DEF Guard!BeginAccept, Guard!BeginLogin, Guard!BeginStatus, Guard!BeginRoles
<1>3. CASE Guard!BeginAccept(p, s)
  <2> DEFINE r == [at |-> "accept", target |-> s]
  <2>1. Guard!Begin(p, r) /\ account[s].status = "invited"
    BY <1>3 DEF Guard!BeginAccept
  <2>2. ReadOK(r, account) /\ FreshOK(r, account) /\ r # Guard!Idle /\ r.target \in Staff
    BY <2>1 DEF ReadOK, FreshOK, Guard!Idle, Guard!Kinds
  <2> HIDE DEF r
  <2> QED  BY <1>1, <1>2, <2>1, <2>2, StaffBeginStep
<1>4. CASE Guard!BeginLogin(p, s)
  <2> DEFINE r == [at |-> "login", target |-> s, gen |-> account[s].gen]
  <2>1. Guard!Begin(p, r) /\ account[s].status = "active"
    BY <1>4 DEF Guard!BeginLogin
  <2>2. ReadOK(r, account) /\ FreshOK(r, account) /\ r # Guard!Idle /\ r.target \in Staff
    BY <1>1, <2>1 DEF ReadOK, FreshOK, Guard!Idle, Guard!Kinds
  <2>3. \A x : x = r => Guard!Begin(p, x) /\ ReadOK(x, account) /\ FreshOK(x, account) /\ x # Guard!Idle /\ x.target \in Staff
    BY <2>1, <2>2
  <2> HIDE DEF r
  <2> QED  BY <1>1, <1>2, <2>3, StaffBeginStep
<1>5. CASE Guard!BeginStatus(p, a, s)
  <2>1. PICK new \in {"active", "suspended", "revoked"} :
          Guard!Begin(p, [at |-> "status", target |-> s, new |-> new])
    BY <1>5 DEF Guard!BeginStatus
  <2> DEFINE r == [at |-> "status", target |-> s, new |-> new]
  <2>2. a \in Staff \ {s} /\ AdminOf(account, a) /\ account[s].status \notin {"none", "revoked"}
    BY <1>5 DEF Guard!BeginStatus, Guard!MayChange, Guard!IsActiveAdmin, AdminOf
  <2>3. ReadOK(r, account) /\ FreshOK(r, account) /\ r # Guard!Idle /\ r.target \in Staff
    BY <2>2 DEF ReadOK, FreshOK, Guard!Idle, Guard!Kinds
  <2>4. Guard!Begin(p, r)
    BY <2>1
  <2> HIDE DEF r
  <2> QED  BY <1>1, <1>2, <2>3, <2>4, StaffBeginStep
<1>6. CASE Guard!BeginRoles(p, a, s)
  <2>1. PICK new \in SUBSET Guard!Roles : Guard!Begin(p, [at |-> "roles", target |-> s, new |-> new])
    BY <1>6 DEF Guard!BeginRoles
  <2> DEFINE r == [at |-> "roles", target |-> s, new |-> new]
  <2>2. a \in Staff \ {s} /\ AdminOf(account, a) /\ account[s].status \notin {"none", "revoked"}
    BY <1>6 DEF Guard!BeginRoles, Guard!MayChange, Guard!IsActiveAdmin, AdminOf
  <2>3. ReadOK(r, account) /\ FreshOK(r, account) /\ r # Guard!Idle /\ r.target \in Staff
    BY <2>2 DEF ReadOK, FreshOK, Guard!Idle, Guard!Kinds
  <2>4. Guard!Begin(p, r)
    BY <2>1
  <2> HIDE DEF r
  <2> QED  BY <1>1, <1>2, <2>3, <2>4, StaffBeginStep
<1> QED  BY <1>3, <1>4, <1>5, <1>6

\* A recovery session that is issued ends those before it, and reads nothing it depends on later.
LEMMA Issues ==
  ASSUME Bootstrapped, StaffInv, NEW p \in Procs, NEW s \in Staff, NEW a \in Staff,
         Guard!IssueNormal(p, a, s) \/ Guard!IssueBreakGlass(p, s)
  PROVE  StaffInv'
<1> DEFINE r == [at |-> "issue", target |-> s]
<1>1. account \in Accounts /\ codes \in 0 .. MaxCodes
  BY DEF StaffInv, Typed
<1>2. /\ Guard!Begin(p, r) /\ account' = [account EXCEPT ![s].recoveries = 0]
      /\ UNCHANGED <<session, changes, gone, calm>>
      /\ codes' = codes \/ (codes > 0 /\ codes' = codes - 1)
  BY DEF Guard!IssueNormal, Guard!IssueBreakGlass
<1>3. account' \in Accounts /\ Grown(account, account')
  BY <1>1, <1>2 DEF Accounts, Account, Grown
<1>4. codes' \in 0 .. MaxCodes
  BY <1>1, <1>2 DEF Bootstrapped
<1>5. ReadOK(r, account) /\ FreshOK(r, account) /\ r # Guard!Idle /\ r.target \in Staff
  BY DEF ReadOK, FreshOK, Guard!Idle, Guard!Kinds
<1> HIDE DEF r
<1> QED  BY <1>2, <1>3, <1>4, <1>5, StaffBeginStep

\* The steps that touch no row another account depends on.
LEMMA QuietSteps ==
  ASSUME Bootstrapped, StaffInv,
         \/ \E a, s \in Staff : Guard!Invite(a, s)
         \/ \E s \in Staff : Guard!CompleteRecovery(s) \/ Guard!RotateCodes(s)
         \/ \E p \in Procs : Guard!CreateSession(p) \/ Guard!Abandon(p)
  PROVE  StaffInv'
<1>1. /\ account \in Accounts /\ codes \in 0 .. MaxCodes /\ changes \in 0 .. MaxChanges
      /\ work = [q \in Procs |-> work[q]] /\ fresh \subseteq Procs
  BY DEF StaffInv, Typed
<1>2. UNCHANGED <<session, gone, calm>>
  BY DEF Guard!Invite, Guard!CompleteRecovery, Guard!RotateCodes, Guard!CreateSession, Guard!Abandon
<1>3. ASSUME NEW a \in Staff, NEW s \in Staff, Guard!Invite(a, s) PROVE StaffInv'
  <2>1. PICK roles \in Guard!RoleSets :
          account' = [account EXCEPT ![s].status = "invited", ![s].roles = roles]
    BY <1>3 DEF Guard!Invite
  <2>2. account[s].status = "none" /\ roles \in SUBSET Guard!Roles /\ UNCHANGED <<codes, work, changes, fresh>>
    BY <1>3 DEF Guard!Invite, Guard!RoleSets
  <2>3. account[s] \in Account /\ \A q \in Staff : account[q].gen \in Nat
    BY <1>1 DEF Accounts, Account
  <2>4. /\ account'[s] \in Account /\ account'[s].gen = account[s].gen
        /\ \A q \in Staff \ {s} : account'[q] = account[q]
    BY <1>1, <2>1, <2>2, <2>3 DEF Accounts, Account
  <2>5. account' \in Accounts
    BY <1>1, <2>1, <2>4 DEF Accounts
  <2>6. Grown(account, account')
    BY <2>2, <2>3, <2>4 DEF Grown
  <2> QED  BY <1>1, <1>2, <2>2, <2>5, <2>6, GrownStep
<1>4. ASSUME NEW s \in Staff, Guard!CompleteRecovery(s) PROVE StaffInv'
  <2>1. /\ account' = [account EXCEPT ![s].recoveries = @ - 1, ![s].gen = @ + 1]
        /\ account[s].recoveries > 0 /\ changes < MaxChanges /\ changes' = changes + 1
        /\ UNCHANGED <<codes, work, fresh>>
    BY <1>4 DEF Guard!CompleteRecovery
  <2>2. account' \in Accounts /\ Grown(account, account')
    BY <1>1, <2>1 DEF Accounts, Account, Grown
  <2>3. changes' \in 0 .. MaxChanges
    BY <1>1, <2>1 DEF Bootstrapped
  <2> QED  BY <1>1, <1>2, <2>1, <2>2, <2>3, GrownStep
<1>5. ASSUME NEW s \in Staff, Guard!RotateCodes(s) PROVE StaffInv'
  <2>1. codes' \in 0 .. MaxCodes /\ UNCHANGED <<account, work, changes, fresh>>
    BY <1>5 DEF Guard!RotateCodes, Bootstrapped
  <2> QED  BY <1>1, <1>2, <2>1, SameAccounts, GrownStep
<1>6. ASSUME NEW p \in Procs, Guard!CreateSession(p) PROVE StaffInv'
  <2>1. /\ work[p].at = "issue" /\ work' = [work EXCEPT ![p] = Guard!Idle]
        /\ account' = [account EXCEPT ![work[p].target].recoveries = @ + 1]
        /\ UNCHANGED <<codes, changes, fresh>>
    BY <1>6 DEF Guard!CreateSession
  <2>2. ReadOK(work[p], account) /\ work[p] # Guard!Idle
    BY <2>1 DEF StaffInv, Reads, Guard!Idle
  <2>3. work[p].target \in Staff
    BY <2>2 DEF ReadOK
  <2>4. account' \in Accounts /\ Grown(account, account')
    BY <1>1, <2>1, <2>3 DEF Accounts, Account, Grown
  <2>5. ReadOK(Guard!Idle, account') /\ FreshOK(Guard!Idle, account')
    BY DEF ReadOK, FreshOK, Guard!Idle
  <2>6. /\ work' = [q \in Procs |-> work'[q]]
        /\ \A q \in Procs : work'[q] = work[q] \/ work'[q] = Guard!Idle
    BY <1>1, <2>1
  <2> QED  BY <1>1, <1>2, <2>1, <2>4, <2>5, <2>6, GrownStep
<1>7. ASSUME NEW p \in Procs, Guard!Abandon(p) PROVE StaffInv'
  <2>1. /\ work' = [work EXCEPT ![p] = Guard!Idle] /\ fresh' \subseteq fresh
        /\ UNCHANGED <<account, codes, changes>>
    BY <1>7 DEF Guard!Abandon
  <2>2. ReadOK(Guard!Idle, account') /\ FreshOK(Guard!Idle, account')
    BY DEF ReadOK, FreshOK, Guard!Idle
  <2>3. /\ work' = [q \in Procs |-> work'[q]]
        /\ \A q \in Procs : work'[q] = work[q] \/ work'[q] = Guard!Idle
    BY <1>1, <2>1
  <2> QED  BY <1>1, <1>2, <2>1, <2>2, <2>3, SameAccounts, GrownStep
<1> QED  BY <1>3, <1>4, <1>5, <1>6, <1>7

\* A login signs the roles the account has when it ends, with the generation it read before.
LEMMA LoginStep ==
  ASSUME StaffInv, NEW p \in Procs, Guard!Login(p)
  PROVE  StaffInv'
<1> DEFINE t == work[p].target
<1>1. /\ work[p].at = "login" /\ work' = [work EXCEPT ![p] = Guard!Idle]
      /\ session' = [session EXCEPT ![t] = [gen |-> work[p].gen, roles |-> account[t].roles]]
      /\ UNCHANGED <<account, codes, changes, fresh, gone, calm>>
  BY DEF Guard!Login
<1>2. /\ account \in Accounts /\ session \in [Staff -> [gen : Nat, roles : SUBSET Guard!Roles]]
      /\ work = [q \in Procs |-> work[q]]
  BY DEF StaffInv, Typed
<1>3. /\ t \in Staff /\ work[p].gen \in Nat /\ work[p].gen <= account[t].gen
      /\ account[t].status # "none"
  <2>1. ReadOK(work[p], account) /\ work[p] # Guard!Idle
    BY <1>1 DEF StaffInv, Reads, Guard!Idle
  <2> QED  BY <1>1, <2>1 DEF ReadOK
<1>4. account[t].gen \in Nat /\ account[t].roles \in SUBSET Guard!Roles
  BY <1>2, <1>3 DEF Accounts, Account
<1>5. \A s \in Staff : \/ s = t /\ session'[s].gen = work[p].gen /\ session'[s].roles = account[t].roles
                       \/ s # t /\ session'[s] = session[s]
  BY <1>1, <1>2, <1>3
<1>6. /\ work' = [q \in Procs |-> work'[q]]
      /\ \A q \in Procs : work'[q] = work[q] \/ work'[q] = Guard!Idle
  BY <1>1, <1>2
<1>7. session' \in [Staff -> [gen : Nat, roles : SUBSET Guard!Roles]]
  BY <1>1, <1>2, <1>3, <1>4
<1>8. Typed'
  BY <1>1, <1>6, <1>7 DEF StaffInv, Typed
<1>9. Signed'
  BY <1>1, <1>3, <1>5 DEF StaffInv, Signed
<1>10. Reads' /\ Calm'
  <2>1. \A acc : ReadOK(Guard!Idle, acc) /\ FreshOK(Guard!Idle, acc)
    BY DEF ReadOK, FreshOK, Guard!Idle
  <2> QED  BY <1>1, <1>6, <2>1 DEF StaffInv, Reads, Calm
<1> QED  BY <1>8, <1>9, <1>10 DEF StaffInv

\* What every change does: it ends what it read of one account, and the reads of the others
\* are no longer fresh.
LEMMA StaffChangeStep ==
  ASSUME Bootstrapped, StaffInv, NEW p \in Procs, Guard!Change(p), work[p] # Guard!Idle,
         account' \in Accounts, UNCHANGED <<session, codes>>,
         gone' \subseteq Staff, calm' = (calm /\ p \in fresh),
         \A s \in Staff : \/ account'[s] = account[s]
                          \/ /\ account'[s].status # "none" \/ account'[s].status = account[s].status
                             /\ \/ account'[s].gen = account[s].gen + 1
                                \/ account'[s].gen = account[s].gen /\ account'[s].roles = account[s].roles,
         Calm'
  PROVE  StaffInv'
<1>1. changes < MaxChanges /\ changes' = changes + 1 /\ work' = [work EXCEPT ![p] = Guard!Idle] /\ fresh' = {}
  BY DEF Guard!Change
<1>2. /\ account \in Accounts /\ session \in [Staff -> [gen : Nat, roles : SUBSET Guard!Roles]]
      /\ work = [q \in Procs |-> work[q]] /\ changes \in 0 .. MaxChanges /\ calm \in BOOLEAN
  BY DEF StaffInv, Typed
<1>3. \A s \in Staff : account[s].gen \in Nat /\ session[s].gen \in Nat
  BY <1>2 DEF Accounts, Account
<1>4. /\ work' = [q \in Procs |-> work'[q]]
      /\ \A q \in Procs : work'[q] = work[q] \/ work'[q] = Guard!Idle
  BY <1>1, <1>2
<1>5. changes' \in 0 .. MaxChanges
  BY <1>1, <1>2 DEF Bootstrapped
<1>6. Typed'
  BY <1>1, <1>4, <1>5 DEF StaffInv, Typed
<1>7. Signed'
  BY <1>3 DEF StaffInv, Signed
<1>8. \A s \in Staff : account'[s].gen >= account[s].gen
                       /\ (account[s].status # "none" => account'[s].status # "none")
  BY <1>3
<1>9. Reads'
  <2> SUFFICES ASSUME NEW q \in Procs PROVE ReadOK(work'[q], account')
    BY <1>1 DEF Reads
  <2>1. CASE work'[q] = Guard!Idle
    BY <2>1 DEF ReadOK
  <2>2. CASE work'[q] = work[q]
    <3>1. ReadOK(work[q], account)
      BY DEF StaffInv, Reads
    <3> QED  BY <1>2, <1>8, <2>2, <3>1, ReadStays
  <2> QED  BY <1>4, <2>1, <2>2
<1> QED  BY <1>6, <1>7, <1>9 DEF StaffInv

LEMMA Changes ==
  ASSUME Bootstrapped, StaffInv, NEW p \in Procs,
         Guard!Accept(p) \/ Guard!ChangeStatus(p) \/ Guard!AssignRoles(p)
  PROVE  StaffInv'
<1> DEFINE t == work[p].target
<1>1. Guard!Change(p) /\ calm' = (calm /\ p \in fresh) /\ UNCHANGED <<session, codes>>
  BY DEF Guard!Accept, Guard!ChangeStatus, Guard!AssignRoles
<1>2. work[p] # Guard!Idle /\ work[p].at \in {"accept", "status", "roles"}
  BY DEF Guard!Accept, Guard!ChangeStatus, Guard!AssignRoles, Guard!Idle
<1>3. ReadOK(work[p], account) /\ (p \in fresh => FreshOK(work[p], account))
  BY DEF StaffInv, Reads
<1>4. t \in Staff
  BY <1>2, <1>3 DEF ReadOK
<1>5. /\ account \in Accounts /\ account[t].gen \in Nat /\ account[t].roles \in SUBSET Guard!Roles
      /\ gone \subseteq Staff
  BY <1>4 DEF StaffInv, Typed, Accounts, Account
<1>6. CASE Guard!Accept(p)
  <2>1. account' = [account EXCEPT ![t].status = "active"] /\ gone' = gone
    BY <1>6 DEF Guard!Accept
  <2>2. /\ account' \in Accounts
        /\ account'[t].status = "active" /\ account'[t].gen = account[t].gen
        /\ account'[t].roles = account[t].roles
        /\ \A s \in Staff \ {t} : account'[s] = account[s]
    BY <1>4, <1>5, <2>1 DEF Accounts, Account
  <2>3. calm' => account[t].status = "invited"
    BY <1>1, <1>3, <1>6 DEF Guard!Accept, FreshOK
  <2>4. Calm'
    BY <1>1, <1>5, <2>1, <2>2, <2>3 DEF StaffInv, Calm, AdminOf
  <2>5. "active" # "none"
    OBVIOUS
  <2> QED  BY <1>1, <1>2, <1>5, <2>1, <2>2, <2>4, <2>5, StaffChangeStep
<1>7. CASE Guard!ChangeStatus(p)
  <2>1. /\ account' = [account EXCEPT ![t].status = work[p].new, ![t].gen = @ + 1]
        /\ gone' = gone \cup {s \in Staff : account'[s].status = "revoked"}
    BY <1>7 DEF Guard!ChangeStatus
  <2>2. work[p].new \in {"active", "suspended", "revoked"}
    BY <1>2, <1>3, <1>7 DEF ReadOK, Guard!ChangeStatus
  <2>3. /\ account' \in Accounts
        /\ account'[t].status # "none" /\ account'[t].gen = account[t].gen + 1
        /\ \A s \in Staff \ {t} : account'[s] = account[s]
    <3>1. PICK was \in Account : was = account[t]
      BY <1>4, <1>5 DEF Accounts
    <3>2. was.gen + 1 \in Nat
      BY <3>1 DEF Account
    <3> DEFINE row == [was EXCEPT !.status = work[p].new, !.gen = was.gen + 1]
    <3>3. row \in Account /\ row.gen = was.gen + 1
      BY <2>2, <3>1, <3>2 DEF Account
    <3>4. row.status # "none"
      BY <2>2, <3>1 DEF Account
    <3>5. account' = [account EXCEPT ![t] = row]
      BY <2>1, <3>1
    <3> HIDE DEF row
    <3> QED  BY <1>4, <1>5, <3>1, <3>3, <3>4, <3>5 DEF Accounts
  <2>4. calm' => /\ account[t].status # "revoked"
                 /\ \E a \in Staff \ {t} : AdminOf(account, a)
    BY <1>1, <1>3, <1>7 DEF Guard!ChangeStatus, FreshOK
  <2>5. Calm'
    BY <1>1, <1>5, <2>1, <2>3, <2>4 DEF StaffInv, Calm, AdminOf
  <2>6. gone' \subseteq Staff
    BY <1>5, <2>1
  <2> QED  BY <1>1, <1>2, <2>3, <2>5, <2>6, StaffChangeStep
<1>8. CASE Guard!AssignRoles(p)
  <2>1. PICK kept \in {{}} \cup (IF p \in fresh THEN {} ELSE {account[t].roles}) :
          account' = [account EXCEPT ![t].roles = kept \cup work[p].new, ![t].gen = @ + 1]
    BY <1>8 DEF Guard!AssignRoles, Guard!ReplaceRoles
  <2>2. gone' = gone /\ kept \cup work[p].new \in SUBSET Guard!Roles
    BY <1>2, <1>3, <1>5, <1>8, <2>1 DEF Guard!AssignRoles, ReadOK
  <2>3. /\ account' \in Accounts
        /\ account'[t].status = account[t].status /\ account'[t].gen = account[t].gen + 1
        /\ \A s \in Staff \ {t} : account'[s] = account[s]
    <3>1. PICK was \in Account : was = account[t]
      BY <1>4, <1>5 DEF Accounts
    <3>2. was.gen + 1 \in Nat
      BY <3>1 DEF Account
    <3> DEFINE row == [was EXCEPT !.roles = kept \cup work[p].new, !.gen = was.gen + 1]
    <3>3. row \in Account /\ row.gen = was.gen + 1
      BY <2>2, <3>1, <3>2 DEF Account
    <3>4. row.status = was.status
      BY <2>2, <3>1 DEF Account
    <3>5. account' = [account EXCEPT ![t] = row]
      BY <2>1, <3>1
    <3> HIDE DEF row
    <3> QED  BY <1>4, <1>5, <3>1, <3>3, <3>4, <3>5 DEF Accounts
  <2>4. calm' => \E a \in Staff \ {t} : AdminOf(account, a)
    BY <1>1, <1>3, <1>8 DEF Guard!AssignRoles, FreshOK
  <2>5. Calm'
    BY <1>1, <1>5, <2>2, <2>3, <2>4 DEF StaffInv, Calm, AdminOf
  <2> QED  BY <1>1, <1>2, <1>5, <2>2, <2>3, <2>5, StaffChangeStep
<1> QED  BY <1>6, <1>7, <1>8

LEMMA StaffNextHolds == Bootstrapped /\ StaffInv /\ [Guard!Next]_(Guard!vars) => StaffInv'
<1> SUFFICES ASSUME Bootstrapped, StaffInv, [Guard!Next]_(Guard!vars) PROVE StaffInv'
  OBVIOUS
<1>1. CASE UNCHANGED Guard!vars
  <2>1. Typed' /\ Signed' /\ Reads' /\ Calm'
    BY <1>1 DEF Guard!vars, StaffInv, Typed, Signed, Reads, Calm
  <2> QED  BY <2>1 DEF StaffInv
<1>2. CASE \/ \E a, s \in Staff : Guard!Invite(a, s)
           \/ \E s \in Staff : Guard!CompleteRecovery(s) \/ Guard!RotateCodes(s)
           \/ \E p \in Procs : Guard!CreateSession(p) \/ Guard!Abandon(p)
  BY <1>2, QuietSteps
<1>3. CASE \E p \in Procs, a, s \in Staff :
             \/ Guard!BeginAccept(p, s) \/ Guard!BeginLogin(p, s) \/ Guard!BeginStatus(p, a, s) \/ Guard!BeginRoles(p, a, s)
             \/ Guard!IssueNormal(p, a, s) \/ Guard!IssueBreakGlass(p, s)
  BY <1>3, Begins, Issues
<1>4. CASE \E p \in Procs : Guard!Accept(p) \/ Guard!ChangeStatus(p) \/ Guard!AssignRoles(p) \/ Guard!Login(p)
  BY <1>4, Changes, LoginStep
<1> QED  BY <1>1, <1>2, <1>3, <1>4 DEF Guard!Next

LEMMA StaffTyped == StaffInv => Guard!TypeOK
  BY DEF StaffInv, Typed, Reads, ReadOK, Guard!TypeOK, Accounts, Account

LEMMA StaffInvSuffices == StaffInv => Guard!StaffAccessHolds
<1> SUFFICES ASSUME StaffInv PROVE Guard!StaffAccessHolds
  OBVIOUS
<1>1. \A s \in Staff : Guard!Live(s) => session[s].roles = account[s].roles
  BY DEF StaffInv, Signed, Guard!Live
<1>2. calm => (\A s \in gone : account[s].status = "revoked") /\ Guard!ActiveAdmins # {}
  BY DEF StaffInv, Calm, AdminOf, Guard!ActiveAdmins, Guard!IsActiveAdmin
<1> QED  BY <1>1, <1>2 DEF Guard!StaffAccessHolds

(* A live session has the roles its account has now; and, as long as no two        *)
(* changes were decided on the same rows at once, a revoked account stays so and    *)
(* an active administrator is left: whoever changes a colleague is one.             *)
THEOREM StaffKeepsAccess == ASSUME Bootstrapped PROVE Guard!Spec => []Guard!StaffAccessHolds
<1>1. Guard!Init => StaffInv
  BY StaffInitHolds
<1>2. StaffInv /\ [Guard!Next]_(Guard!vars) => StaffInv'
  BY StaffNextHolds
<1>3. StaffInv => Guard!StaffAccessHolds
  BY StaffInvSuffices
<1> QED  BY <1>1, <1>2, <1>3, PTL DEF Guard!Spec

-----------------------------------------------------------------------------
(* The support cases, of which a session of the staff is only the caller. *)
CONSTANTS Cases, CaseKeys, CaseVersions
VARIABLES receipt, kase, notes, requests, applied, won, closed, added

Support == INSTANCE SupportCases WITH Keys <- CaseKeys, MaxVersion <- CaseVersions

\* The instance counts as the library does.
LEMMA CaseCounts ==
  ASSUME NEW S
  PROVE  Support!Cardinality(S) = Cardinality(S)
BY DEF Support!Cardinality, Cardinality

SomeVersions == CaseVersions \in Nat \ {0}

CaseCreating == [at : {"create"}]
CaseUpdating == [at : {"update"}, case : Cases, key : CaseKeys, expected : 1..CaseVersions, status : Support!Statuses]
CaseKeyed    == [at : {"reopen", "note"}, case : Cases, key : CaseKeys]
CaseWorks == CaseCreating \cup CaseUpdating \cup CaseKeyed \cup {Support!Idle}

CaseShaped == Support!TypeOK /\ work \in [Procs -> CaseWorks]
\* A change that was made has its request's row.
MadeOnce == \A ck \in Cases \X CaseKeys : applied[ck] <= 1 /\ (applied[ck] > 0 => ck \in requests)
Dated ==
  \A c \in Cases : /\ kase[c].closedAt <=> kase[c].status = "closed"
                   /\ kase[c].status = "none" => kase[c].version = 0
OneOpened == \A c, d \in Support!Opened : c = d
\* The versions that were changed are behind the case's own.
WonOnce == \A c \in Cases, v \in 1..CaseVersions : won[c][v] <= 1 /\ (won[c][v] > 0 => v < kase[c].version)
StayClosed == \A c \in closed : kase[c].status = "closed"
NotesKept == ~late /\ \A c \in Cases : notes[c] # added[c] => kase[c].status = "closed"
Orderly == OneOpened /\ WonOnce /\ StayClosed /\ NotesKept
CaseReadsNow(w) ==
  /\ w.at = "create" => Support!Opened = {}
  /\ w.at = "update" => w.case \in Support!Opened /\ Support!SameVersion(w.case, w.expected) /\ Support!Allowed(w.case, w.status)
  /\ w.at = "reopen" => w.case \in Support!Opened /\ Support!Reopenable(w.case)
  /\ w.at = "note" => Support!NotClosed(w.case)
CaseInTurn ==
  calm => /\ \A p, q \in Procs : work[p] # Support!Idle /\ work[q] # Support!Idle => p = q
          /\ \A p \in Procs : CaseReadsNow(work[p])
          /\ Orderly

CaseInv == CaseShaped /\ MadeOnce /\ Dated /\ CaseInTurn

LEMMA CaseKinds ==
  ASSUME NEW w \in CaseWorks
  PROVE  /\ w = Support!Idle <=> w.at = "idle"
         /\ w.at = "create" => w \in CaseCreating
         /\ w.at = "update" => w \in CaseUpdating
         /\ w.at \in {"reopen", "note"} => w \in CaseKeyed
BY DEF CaseWorks, Support!Idle, CaseCreating, CaseUpdating, CaseKeyed

LEMMA CaseEnds ==
  ASSUME CaseInv, NEW p \in Procs, Support!Done(p)
  PROVE  /\ work' \in [Procs -> CaseWorks]
         /\ \A q \in Procs : work'[q] = IF q = p THEN Support!Idle ELSE work[q]
BY DEF CaseInv, CaseShaped, Support!Done, CaseWorks

LEMMA CaseAlone ==
  ASSUME CaseInv, calm, NEW p \in Procs, work[p].at # "idle"
  PROVE  /\ \A q \in Procs : q # p => work[q] = Support!Idle
         /\ CaseReadsNow(work[p]) /\ Orderly
<1>1. work[p] # Support!Idle
  BY DEF Support!Idle
<1> QED  BY <1>1 DEF CaseInv, CaseInTurn

LEMMA CaseAllOver ==
  ASSUME calm' => (\A q \in Procs : work'[q] = Support!Idle) /\ Orderly'
  PROVE  CaseInTurn'
<1>1. ASSUME calm', NEW q \in Procs
      PROVE  CaseReadsNow(work[q])'
  <2>1. work'[q] = Support!Idle
    BY <1>1
  <2> QED  BY <2>1 DEF CaseReadsNow, Support!Idle
<1> QED  BY <1>1 DEF CaseInTurn

\* What is checked of the cases is not of the receipt or of the requests under way.
LEMMA OrderStays ==
  ASSUME UNCHANGED <<kase, notes, won, closed, added, late>>
  PROVE  /\ Orderly' <=> Orderly
         /\ Dated' <=> Dated
         /\ Support!Opened' = Support!Opened
         /\ \A w : CaseReadsNow(w)' <=> CaseReadsNow(w)
BY DEF Orderly, OneOpened, WonOnce, StayClosed, NotesKept, Dated, Support!Opened, CaseReadsNow,
   Support!SameVersion, Support!Allowed,
       Support!Reopenable, Support!NotClosed

LEMMA CaseArriveStep ==
  ASSUME SomeVersions, CaseInv, NEW p \in Procs, NEW w \in CaseWorks, Support!Arrive(p, w), CaseReadsNow(w)
  PROVE  CaseInv'
<1>1. /\ work \in [Procs -> CaseWorks] /\ calm \in BOOLEAN /\ work' = [work EXCEPT ![p] = w]
      /\ calm' = (calm /\ \A q \in Procs : work[q] = Support!Idle)
      /\ UNCHANGED <<receipt, kase, notes, requests, applied, won, closed, added, late>>
  BY DEF CaseInv, CaseShaped, Support!TypeOK, Support!Arrive
<1>2. work' \in [Procs -> CaseWorks] /\ calm' \in BOOLEAN
      /\ \A q \in Procs : work'[q] = IF q = p THEN w ELSE work[q]
  BY <1>1
<1>3. CaseShaped' /\ MadeOnce' /\ Dated'
  BY <1>1, <1>2, OrderStays DEF CaseInv, CaseShaped, Support!TypeOK, MadeOnce
<1>4. ASSUME calm'
      PROVE  (\A q \in Procs : work[q] = Support!Idle) /\ Orderly
  BY <1>1, <1>4 DEF CaseInv, CaseInTurn
<1>5. calm' => Orderly'
  BY <1>1, <1>4, OrderStays
<1>6. ASSUME calm', NEW q \in Procs
      PROVE  CaseReadsNow(work[q])'
  <2>1. CASE q = p
    <3>1. work'[q] = w /\ CaseReadsNow(w)'
      BY <1>1, <1>2, <1>6, <2>1, OrderStays
    <3> QED  BY <3>1 DEF CaseReadsNow
  <2>2. CASE q # p
    <3>1. work'[q] = Support!Idle
      BY <1>2, <1>4, <1>6, <2>2
    <3> QED  BY <3>1 DEF CaseReadsNow, Support!Idle
  <2> QED  BY <2>1, <2>2
<1>7. calm' => \A o, q \in Procs : work'[o] # Support!Idle /\ work'[q] # Support!Idle => o = q
  BY <1>2, <1>4
<1> QED  BY <1>3, <1>5, <1>6, <1>7 DEF CaseInv, CaseInTurn

LEMMA CaseBeginStep ==
  ASSUME SomeVersions, CaseInv, NEW p \in Procs, Support!Begin(p)
  PROVE  CaseInv'
<1>1. CASE Support!CreateRead(p)
  <2> DEFINE w == [at |-> "create"]
  <2>1. w \in CaseWorks /\ CaseReadsNow(w)
    BY <1>1 DEF CaseWorks, CaseCreating, CaseReadsNow, Support!CreateRead, Support!NoneOpened
  <2>2. Support!Arrive(p, w)
    BY <1>1 DEF Support!CreateRead
  <2> HIDE DEF w
  <2> QED  BY <2>1, <2>2, CaseArriveStep
<1>2. ASSUME NEW c \in Cases, NEW k \in CaseKeys, NEW v \in 1..CaseVersions, NEW status \in Support!Statuses,
             Support!UpdateRead(p, c, k, v, status)
      PROVE  CaseInv'
  <2> DEFINE w == [at |-> "update", case |-> c, key |-> k, expected |-> v, status |-> status]
  <2>1. w \in CaseWorks /\ CaseReadsNow(w)
    BY <1>2 DEF CaseWorks, CaseUpdating, CaseReadsNow, Support!UpdateRead
  <2>2. Support!Arrive(p, w)
    BY <1>2 DEF Support!UpdateRead
  <2> HIDE DEF w
  <2> QED  BY <2>1, <2>2, CaseArriveStep
<1>3. ASSUME NEW c \in Cases, NEW k \in CaseKeys, Support!ReopenRead(p, c, k)
      PROVE  CaseInv'
  <2> DEFINE w == [at |-> "reopen", case |-> c, key |-> k]
  <2>1. w \in CaseWorks /\ CaseReadsNow(w)
    BY <1>3 DEF CaseWorks, CaseKeyed, CaseReadsNow, Support!ReopenRead
  <2>2. Support!Arrive(p, w)
    BY <1>3 DEF Support!ReopenRead
  <2> HIDE DEF w
  <2> QED  BY <2>1, <2>2, CaseArriveStep
<1>4. ASSUME NEW c \in Cases, NEW k \in CaseKeys, Support!NoteRead(p, c, k)
      PROVE  CaseInv'
  <2> DEFINE w == [at |-> "note", case |-> c, key |-> k]
  <2>1. w \in CaseWorks /\ CaseReadsNow(w)
    BY <1>4 DEF CaseWorks, CaseKeyed, CaseReadsNow, Support!NoteRead
  <2>2. Support!Arrive(p, w)
    BY <1>4 DEF Support!NoteRead
  <2> HIDE DEF w
  <2> QED  BY <2>1, <2>2, CaseArriveStep
<1> QED  BY <1>1, <1>2, <1>3, <1>4 DEF Support!Begin

-----------------------------------------------------------------------------
\* One case's row is replaced.
LEMMA CaseRowStep ==
  ASSUME NEW c \in Cases, NEW row \in Support!Rows, kase \in [Cases -> Support!Rows],
         kase' = [kase EXCEPT ![c] = row]
  PROVE  /\ kase' \in [Cases -> Support!Rows] /\ kase'[c] = row
         /\ \A d \in Cases : d # c => kase'[d] = kase[d]
OBVIOUS

LEMMA CaseCreateStep ==
  ASSUME SomeVersions, CaseInv, NEW p \in Procs, NEW c \in Cases, Support!CreateSupportCase(p, c)
  PROVE  CaseInv'
<1> DEFINE row == [status |-> "open", version |-> 1, closedAt |-> FALSE, reopened |-> 0]
<1>1. row \in Support!Rows /\ row.status = "open" /\ row.version = 1 /\ row.closedAt = FALSE
  BY DEF Support!Rows, Support!Statuses, SomeVersions
<1>2. /\ work[p].at = "create" /\ kase[c].status = "none" /\ kase' = [kase EXCEPT ![c] = row]
      /\ receipt' = "consumed" /\ UNCHANGED <<notes, requests, applied, won, closed, added, late, calm>>
  BY DEF Support!CreateSupportCase
<1> HIDE DEF row
<1>3. work' \in [Procs -> CaseWorks] /\ \A q \in Procs : work'[q] = IF q = p THEN Support!Idle ELSE work[q]
  BY CaseEnds DEF Support!CreateSupportCase
<1>4. /\ kase \in [Cases -> Support!Rows] /\ kase' \in [Cases -> Support!Rows] /\ kase'[c] = row
      /\ \A d \in Cases : d # c => kase'[d] = kase[d]
  BY <1>1, <1>2, CaseRowStep DEF CaseInv, CaseShaped, Support!TypeOK
<1>5. CaseShaped' /\ MadeOnce' /\ Dated'
  BY <1>1, <1>2, <1>3, <1>4 DEF CaseInv, CaseShaped, Support!TypeOK, MadeOnce, Dated
<1>6. ASSUME calm'
      PROVE  (\A q \in Procs : work'[q] = Support!Idle) /\ Orderly'
  <2>1. (\A q \in Procs : q # p => work[q] = Support!Idle) /\ CaseReadsNow(work[p]) /\ Orderly
    BY <1>2, <1>6, CaseAlone
  <2>2. Support!Opened = {}
    BY <1>2, <2>1 DEF CaseReadsNow
  <2>3. Support!Opened' = {c}
    BY <1>1, <1>4, <2>2 DEF Support!Opened
  <2>4. WonOnce'
    <3> SUFFICES ASSUME NEW d \in Cases, NEW v \in 1..CaseVersions
                 PROVE  won[d][v] <= 1 /\ (won[d][v] > 0 => v < kase'[d].version)
      BY <1>2 DEF WonOnce
    <3>1. won[d][v] <= 1 /\ (won[d][v] > 0 => v < kase[d].version)
      BY <2>1 DEF Orderly, WonOnce
    <3>2. kase[d].version \in Nat
      BY <1>4 DEF Support!Rows, SomeVersions
    <3>3. CASE d = c
      <4>1. kase[c].version = 0 /\ ~(v < 0)
        BY <1>2 DEF CaseInv, Dated, SomeVersions
      <4> QED  BY <3>1, <3>3, <4>1
    <3> QED  BY <1>4, <3>1, <3>3
  <2>5. StayClosed' /\ NotesKept'
    BY <1>2, <1>4, <2>1 DEF Orderly, StayClosed, NotesKept, CaseInv, CaseShaped, Support!TypeOK
  <2> QED  BY <1>3, <2>1, <2>3, <2>4, <2>5 DEF Orderly, OneOpened
<1> QED  BY <1>5, <1>6, CaseAllOver DEF CaseInv

\* A change of a case's workflow, with its request's row.
LEMMA WrittenStep ==
  ASSUME SomeVersions, CaseInv, NEW p \in Procs, NEW c \in Cases, NEW k \in CaseKeys, NEW row \in Support!Rows,
         work[p].case = c, work[p].key = k, Support!BeginMutation(p), Support!Written(p, row),
         row.status # "none",
         row.closedAt <=> row.status = "closed",
         Support!Done(p), won' \in [Cases -> [1..CaseVersions -> Nat]],
         UNCHANGED <<receipt, notes, added, late, calm>>
  PROVE  /\ CaseShaped' /\ MadeOnce' /\ Dated'
         /\ \A q \in Procs : work'[q] = IF q = p THEN Support!Idle ELSE work[q]
         /\ kase'[c] = row /\ \A d \in Cases : d # c => kase'[d] = kase[d]
         /\ closed' = closed \cup (IF row.status = "closed" THEN {c} ELSE {})
<1>1. /\ kase' = [kase EXCEPT ![c] = row] /\ requests' = requests \cup {<<c, k>>} /\ <<c, k>> \notin requests
      /\ closed' = closed \cup (IF row.status = "closed" THEN {c} ELSE {})
      /\ applied' = [applied EXCEPT ![<<c, k>>] = @ + 1]
  BY DEF Support!BeginMutation, Support!Written
<1>2. /\ kase \in [Cases -> Support!Rows] /\ kase' \in [Cases -> Support!Rows] /\ kase'[c] = row
      /\ \A d \in Cases : d # c => kase'[d] = kase[d]
  BY <1>1, CaseRowStep DEF CaseInv, CaseShaped, Support!TypeOK
<1>3. work' \in [Procs -> CaseWorks] /\ \A q \in Procs : work'[q] = IF q = p THEN Support!Idle ELSE work[q]
  BY CaseEnds
<1>4. /\ applied \in [Cases \X CaseKeys -> Nat] /\ applied' \in [Cases \X CaseKeys -> Nat]
      /\ \A ck \in Cases \X CaseKeys : applied'[ck] = IF ck = <<c, k>> THEN applied[ck] + 1 ELSE applied[ck]
  <2>1. PICK request \in Cases \X CaseKeys : request = <<c, k>>
    OBVIOUS
  <2>2. applied \in [Cases \X CaseKeys -> Nat] /\ applied' = [applied EXCEPT ![request] = @ + 1]
    BY <1>1, <2>1 DEF CaseInv, CaseShaped, Support!TypeOK
  <2>3. /\ applied' \in [Cases \X CaseKeys -> Nat]
        /\ \A ck \in Cases \X CaseKeys : applied'[ck] = IF ck = request THEN applied[ck] + 1 ELSE applied[ck]
    BY <2>2
  <2> QED  BY <2>1, <2>2, <2>3
<1>5. closed' \subseteq Cases /\ requests' \in SUBSET (Cases \X CaseKeys)
  BY <1>1 DEF CaseInv, CaseShaped, Support!TypeOK
<1>6. CaseShaped'
  BY <1>2, <1>3, <1>4, <1>5 DEF CaseInv, CaseShaped, Support!TypeOK
<1>7. MadeOnce'
  <2> SUFFICES ASSUME NEW ck \in Cases \X CaseKeys
               PROVE  applied'[ck] <= 1 /\ (applied'[ck] > 0 => ck \in requests')
    BY DEF MadeOnce
  <2>1. applied[ck] \in Nat /\ applied[ck] <= 1 /\ (applied[ck] > 0 => ck \in requests)
    BY <1>4 DEF CaseInv, MadeOnce
  <2>2. CASE ck = <<c, k>>
    BY <1>1, <1>4, <2>1, <2>2
  <2>3. CASE ck # <<c, k>>
    BY <1>1, <1>4, <2>1, <2>3
  <2> QED  BY <2>2, <2>3
<1>8. Dated'
  BY <1>2 DEF CaseInv, Dated
<1> QED  BY <1>1, <1>2, <1>3, <1>6, <1>7, <1>8

LEMMA CaseUpdateStep ==
  ASSUME SomeVersions, CaseInv, NEW p \in Procs, Support!UpdateSupportCaseWorkflow(p)
  PROVE  CaseInv'
<1> PICK w \in CaseWorks : w = work[p]
  BY DEF CaseInv, CaseShaped
<1>1. w.at = "update" /\ w.case \in Cases /\ w.key \in CaseKeys /\ w.expected \in 1..CaseVersions
      /\ w.status \in Support!Statuses
  BY CaseKinds DEF Support!UpdateSupportCaseWorkflow, CaseUpdating
<1> PICK c \in Cases, k \in CaseKeys : c = w.case /\ k = w.key
  BY <1>1
<1> PICK was \in Support!Rows : was = kase[c]
  BY DEF CaseInv, CaseShaped, Support!TypeOK
<1> DEFINE row == [was EXCEPT !.status = w.status, !.version = @ + 1, !.closedAt = w.status = "closed"]
<1>2. /\ was.version < CaseVersions /\ Support!BeginMutation(p) /\ Support!Written(p, row) /\ Support!Done(p)
      /\ won' = [won EXCEPT ![c][w.expected] = @ + 1]
      /\ UNCHANGED <<receipt, notes, added, late, calm>>
  BY DEF Support!UpdateSupportCaseWorkflow, Support!Written
<1>3. row \in Support!Rows /\ row.status = w.status /\ row.version = was.version + 1
      /\ (row.closedAt <=> row.status = "closed") /\ row.status # "none"
  <2>1. was.version \in 0..CaseVersions /\ was.version + 1 \in 0..CaseVersions /\ (w.status = "closed") \in BOOLEAN
    BY <1>2 DEF Support!Rows, SomeVersions
  <2> QED  BY <1>1, <2>1 DEF Support!Rows, Support!Statuses
<1> HIDE DEF row
<1>4. /\ won' \in [Cases -> [1..CaseVersions -> Nat]]
      /\ \A d \in Cases, v \in 1..CaseVersions :
           won'[d][v] = IF d = c /\ v = w.expected THEN won[d][v] + 1 ELSE won[d][v]
  <2>1. won \in [Cases -> [1..CaseVersions -> Nat]]
    BY DEF CaseInv, CaseShaped, Support!TypeOK
  <2>2. PICK f \in [1..CaseVersions -> Nat] : f = won[c]
    BY <2>1
  <2>3. PICK g : g = [f EXCEPT ![w.expected] = @ + 1]
    OBVIOUS
  <2>4. won' = [won EXCEPT ![c] = g]
    BY <1>2, <2>2, <2>3
  <2>5. g \in [1..CaseVersions -> Nat] /\ \A v \in 1..CaseVersions : g[v] = IF v = w.expected THEN f[v] + 1 ELSE f[v]
    BY <1>1, <2>3
  <2>6. won' \in [Cases -> [1..CaseVersions -> Nat]] /\ \A d \in Cases : won'[d] = IF d = c THEN g ELSE won[d]
    BY <2>1, <2>4, <2>5
  <2> QED  BY <2>2, <2>5, <2>6
<1>5. /\ CaseShaped' /\ MadeOnce' /\ Dated'
      /\ \A q \in Procs : work'[q] = IF q = p THEN Support!Idle ELSE work[q]
      /\ kase'[c] = row /\ \A d \in Cases : d # c => kase'[d] = kase[d]
      /\ closed' = closed \cup (IF row.status = "closed" THEN {c} ELSE {})
  <2>1. work[p].case = c /\ work[p].key = k
    BY <1>1
  <2>2. Support!BeginMutation(p) /\ Support!Written(p, row) /\ Support!Done(p) /\ UNCHANGED <<receipt, notes, added, late, calm>>
    BY <1>2
  <2>3. row \in Support!Rows /\ row.status # "none" /\ (row.closedAt <=> row.status = "closed")
    BY <1>3
  <2>4. won' \in [Cases -> [1..CaseVersions -> Nat]]
    BY <1>4
  <2> QED  BY <2>1, <2>2, <2>3, <2>4, WrittenStep
<1>6. ASSUME calm'
      PROVE  (\A q \in Procs : work'[q] = Support!Idle) /\ Orderly'
  <2>1. (\A q \in Procs : q # p => work[q] = Support!Idle) /\ CaseReadsNow(w) /\ Orderly
    BY <1>1, <1>2, <1>6, CaseAlone
  <2>2. c \in Support!Opened /\ was.version = w.expected /\ Support!Allowed(c, w.status)
    BY <1>1, <2>1 DEF CaseReadsNow, Support!SameVersion
  <2>3. was.status = "closed" => w.status = "closed"
    BY <2>2 DEF Support!Allowed, Support!TERMINAL_TRANSITIONS
  <2>4. Support!Opened' = Support!Opened
    BY <1>1, <1>3, <1>5, <2>2 DEF Support!Opened, Support!Statuses
  <2>5. WonOnce'
    <3> SUFFICES ASSUME NEW d \in Cases, NEW v \in 1..CaseVersions
                 PROVE  won'[d][v] <= 1 /\ (won'[d][v] > 0 => v < kase'[d].version)
      BY DEF WonOnce
    <3>1. won[d][v] \in Nat /\ won[d][v] <= 1 /\ (won[d][v] > 0 => v < kase[d].version)
      BY <2>1 DEF Orderly, WonOnce, CaseInv, CaseShaped, Support!TypeOK
    <3>2. was.version \in Nat /\ v \in Nat
      BY DEF Support!Rows, SomeVersions
    <3>3. CASE d = c /\ v = w.expected
      <4>1. won[d][v] = 0
        BY <2>2, <3>1, <3>2, <3>3
      <4> QED  BY <1>3, <1>4, <1>5, <2>2, <3>2, <3>3, <4>1
    <3>4. CASE d = c /\ v # w.expected
      BY <1>3, <1>4, <1>5, <3>1, <3>2, <3>4
    <3>5. CASE d # c
      BY <1>4, <1>5, <3>1, <3>5
    <3> QED  BY <3>3, <3>4, <3>5
  <2>6. \A d \in Cases : kase[d].status = "closed" => kase'[d].status = "closed"
    BY <1>3, <1>5, <2>3
  <2>7. closed' \subseteq {d \in Cases : kase'[d].status = "closed"}
    BY <1>3, <1>5, <2>1, <2>6 DEF Orderly, StayClosed, CaseInv, CaseShaped, Support!TypeOK
  <2>8. StayClosed' /\ NotesKept'
    BY <1>2, <2>1, <2>6, <2>7 DEF Orderly, StayClosed, NotesKept
  <2> QED  BY <1>5, <2>1, <2>4, <2>5, <2>8 DEF Orderly, OneOpened
<1> QED  BY <1>5, <1>6, CaseAllOver DEF CaseInv

LEMMA ReopenStep ==
  ASSUME SomeVersions, CaseInv, NEW p \in Procs, Support!ReopenSupportCase(p)
  PROVE  CaseInv'
<1> PICK w \in CaseWorks : w = work[p]
  BY DEF CaseInv, CaseShaped
<1>1. w.at = "reopen" /\ w.case \in Cases /\ w.key \in CaseKeys
  BY CaseKinds DEF Support!ReopenSupportCase, CaseKeyed
<1> PICK c \in Cases, k \in CaseKeys : c = w.case /\ k = w.key
  BY <1>1
<1> PICK was \in Support!Rows : was = kase[c]
  BY DEF CaseInv, CaseShaped, Support!TypeOK
<1> DEFINE row == [was EXCEPT !.status = "open", !.version = @ + 1, !.closedAt = FALSE, !.reopened = @ + 1]
<1>2. /\ was.version < CaseVersions /\ Support!BeginMutation(p) /\ Support!Written(p, row) /\ Support!Done(p)
      /\ UNCHANGED <<receipt, notes, won, added, late, calm>>
  BY DEF Support!ReopenSupportCase, Support!Written
<1>3. row \in Support!Rows /\ row.status = "open" /\ row.version = was.version + 1 /\ row.closedAt = FALSE
  <2>1. was.version \in 0..CaseVersions /\ was.version + 1 \in 0..CaseVersions /\ was.reopened + 1 \in Nat
    BY <1>2 DEF Support!Rows, SomeVersions
  <2> QED  BY <2>1 DEF Support!Rows, Support!Statuses
<1> HIDE DEF row
<1>4. /\ CaseShaped' /\ MadeOnce' /\ Dated'
      /\ \A q \in Procs : work'[q] = IF q = p THEN Support!Idle ELSE work[q]
      /\ kase'[c] = row /\ \A d \in Cases : d # c => kase'[d] = kase[d]
      /\ closed' = closed
  <2>1. won' \in [Cases -> [1..CaseVersions -> Nat]]
    BY <1>2 DEF CaseInv, CaseShaped, Support!TypeOK
  <2>2. /\ CaseShaped' /\ MadeOnce' /\ Dated'
        /\ \A q \in Procs : work'[q] = IF q = p THEN Support!Idle ELSE work[q]
        /\ kase'[c] = row /\ \A d \in Cases : d # c => kase'[d] = kase[d]
        /\ closed' = closed \cup (IF row.status = "closed" THEN {c} ELSE {})
    BY <1>1, <1>2, <1>3, <2>1, WrittenStep
  <2> QED  BY <1>3, <2>2
<1>5. ASSUME calm'
      PROVE  (\A q \in Procs : work'[q] = Support!Idle) /\ Orderly'
  <2>1. (\A q \in Procs : q # p => work[q] = Support!Idle) /\ CaseReadsNow(w) /\ Orderly
    BY <1>1, <1>2, <1>5, CaseAlone
  <2>2. c \in Support!Opened /\ was.status = "resolved"
    BY <1>1, <2>1 DEF CaseReadsNow, Support!Reopenable
  <2>3. Support!Opened' = Support!Opened
    BY <1>3, <1>4, <2>2 DEF Support!Opened
  <2>4. WonOnce'
    <3> SUFFICES ASSUME NEW d \in Cases, NEW v \in 1..CaseVersions
                 PROVE  won'[d][v] <= 1 /\ (won'[d][v] > 0 => v < kase'[d].version)
      BY DEF WonOnce
    <3>1. won[d][v] <= 1 /\ (won[d][v] > 0 => v < kase[d].version)
      BY <2>1 DEF Orderly, WonOnce
    <3>2. was.version \in Nat /\ v \in Nat
      BY DEF Support!Rows, SomeVersions
    <3> QED  BY <1>2, <1>3, <1>4, <3>1, <3>2
  <2>5. StayClosed' /\ NotesKept'
    BY <1>2, <1>3, <1>4, <2>1, <2>2 DEF Orderly, StayClosed, NotesKept, CaseInv, CaseShaped, Support!TypeOK
  <2> QED  BY <1>4, <2>1, <2>3, <2>4, <2>5 DEF Orderly, OneOpened
<1> QED  BY <1>4, <1>5, CaseAllOver DEF CaseInv

LEMMA NoteStep ==
  ASSUME SomeVersions, CaseInv, NEW p \in Procs, Support!AddSupportCaseNote(p)
  PROVE  CaseInv'
<1> PICK w \in CaseWorks : w = work[p]
  BY DEF CaseInv, CaseShaped
<1>1. w.at = "note" /\ w.case \in Cases /\ w.key \in CaseKeys
  BY CaseKinds DEF Support!AddSupportCaseNote, CaseKeyed
<1> PICK c \in Cases, k \in CaseKeys : c = w.case /\ k = w.key
  BY <1>1
<1>2. /\ notes' = [notes EXCEPT ![c] = @ \cup {k}] /\ added' = [added EXCEPT ![c] = @ \cup {k}]
      /\ late' = (late \/ kase[c].status = "closed")
      /\ UNCHANGED <<receipt, kase, requests, applied, won, closed, calm>>
  BY DEF Support!AddSupportCaseNote
<1>3. work' \in [Procs -> CaseWorks] /\ \A q \in Procs : work'[q] = IF q = p THEN Support!Idle ELSE work[q]
  BY CaseEnds DEF Support!AddSupportCaseNote
<1>4. /\ notes' \in [Cases -> SUBSET CaseKeys] /\ added' \in [Cases -> SUBSET CaseKeys] /\ late' \in BOOLEAN
      /\ notes'[c] = notes[c] \cup {k} /\ added'[c] = added[c] \cup {k}
      /\ \A d \in Cases : d # c => notes'[d] = notes[d] /\ added'[d] = added[d]
  BY <1>2 DEF CaseInv, CaseShaped, Support!TypeOK
<1>5. CaseShaped' /\ MadeOnce' /\ Dated'
  BY <1>2, <1>3, <1>4 DEF CaseInv, CaseShaped, Support!TypeOK, MadeOnce, Dated
<1>6. ASSUME calm'
      PROVE  (\A q \in Procs : work'[q] = Support!Idle) /\ Orderly'
  <2>1. (\A q \in Procs : q # p => work[q] = Support!Idle) /\ CaseReadsNow(w) /\ Orderly
    BY <1>1, <1>2, <1>6, CaseAlone
  <2>2. kase[c].status # "closed"
    BY <1>1, <2>1 DEF CaseReadsNow, Support!NotClosed
  <2>3. NotesKept'
    BY <1>2, <1>4, <2>1, <2>2 DEF Orderly, NotesKept
  <2>4. OneOpened' /\ WonOnce' /\ StayClosed'
    BY <1>2, <2>1 DEF Orderly, OneOpened, Support!Opened, WonOnce, StayClosed
  <2> QED  BY <1>3, <2>1, <2>3, <2>4 DEF Orderly
<1> QED  BY <1>5, <1>6, CaseAllOver DEF CaseInv

LEMMA CaseAbandonStep ==
  ASSUME SomeVersions, CaseInv, NEW p \in Procs, Support!Abandon(p)
  PROVE  CaseInv'
<1>1. /\ work[p] # Support!Idle /\ Support!Done(p)
      /\ UNCHANGED <<receipt, kase, notes, requests, applied, won, closed, added, late, calm>>
  BY DEF Support!Abandon
<1>2. work' \in [Procs -> CaseWorks] /\ \A q \in Procs : work'[q] = IF q = p THEN Support!Idle ELSE work[q]
  BY <1>1, CaseEnds
<1>3. CaseShaped' /\ MadeOnce' /\ Dated'
  BY <1>1, <1>2 DEF CaseInv, CaseShaped, Support!TypeOK, MadeOnce, Dated
<1>4. ASSUME calm'
      PROVE  (\A q \in Procs : work'[q] = Support!Idle) /\ Orderly'
  <2>1. (\A q \in Procs : q # p => work[q] = Support!Idle) /\ Orderly
    BY <1>1, <1>4 DEF CaseInv, CaseInTurn
  <2> QED  BY <1>1, <1>2, <2>1, OrderStays
<1> QED  BY <1>3, <1>4, CaseAllOver DEF CaseInv

LEMMA ReceiptStep ==
  ASSUME SomeVersions, CaseInv, Support!ReceiptExpires
  PROVE  CaseInv'
<1>1. /\ receipt' = "expired"
      /\ UNCHANGED <<kase, notes, requests, work, applied, won, closed, added, late, calm>>
  BY DEF Support!ReceiptExpires
<1>2. CaseShaped' /\ MadeOnce'
  BY <1>1 DEF CaseInv, CaseShaped, Support!TypeOK, MadeOnce
<1>3. Dated' /\ CaseInTurn'
  BY <1>1, OrderStays DEF CaseInv, CaseInTurn
<1> QED  BY <1>2, <1>3 DEF CaseInv

LEMMA PurgeStep ==
  ASSUME SomeVersions, CaseInv, Support!PurgeExpiredSupportCaseContent
  PROVE  CaseInv'
<1>1. /\ notes' = [c \in Cases |-> IF c \in Support!Expired THEN {} ELSE notes[c]]
      /\ UNCHANGED <<receipt, kase, requests, work, applied, won, closed, added, late, calm>>
  BY DEF Support!PurgeExpiredSupportCaseContent
<1>2. notes' \in [Cases -> SUBSET CaseKeys] /\ \A c \in Cases : kase[c].status # "closed" => notes'[c] = notes[c]
  BY <1>1 DEF CaseInv, CaseShaped, Support!TypeOK, Support!Expired
<1>3. CaseShaped' /\ MadeOnce' /\ Dated'
  BY <1>1, <1>2 DEF CaseInv, CaseShaped, Support!TypeOK, MadeOnce, Dated
<1>4. Support!Opened' = Support!Opened /\ \A w : CaseReadsNow(w)' <=> CaseReadsNow(w)
  BY <1>1 DEF Support!Opened, CaseReadsNow, Support!SameVersion, Support!Allowed, Support!Reopenable,
     Support!NotClosed
<1>5. Orderly => Orderly'
  BY <1>1, <1>2, <1>4 DEF Orderly, OneOpened, WonOnce, StayClosed, NotesKept
<1>6. CaseInTurn'
  BY <1>1, <1>4, <1>5 DEF CaseInv, CaseInTurn
<1> QED  BY <1>3, <1>6 DEF CaseInv

-----------------------------------------------------------------------------
LEMMA CaseInitHolds ==
  ASSUME SomeVersions, Support!Init
  PROVE  CaseInv
<1>1. Support!NoCase \in Support!Rows /\ Support!NoCase.status = "none" /\ Support!NoCase.closedAt = FALSE /\ Support!NoCase.version = 0
  BY DEF Support!NoCase, Support!Rows, SomeVersions
<1> USE DEF Support!Init
<1>2. Support!TypeOK
  <2>1. kase \in [Cases -> Support!Rows]
    BY <1>1
  <2>2. applied \in [Cases \X CaseKeys -> Nat] /\ won \in [Cases -> [1..CaseVersions -> Nat]]
        /\ notes \in [Cases -> SUBSET CaseKeys] /\ added \in [Cases -> SUBSET CaseKeys]
    OBVIOUS
  <2> QED  BY <2>1, <2>2 DEF Support!TypeOK
<1>3. CaseShaped /\ MadeOnce /\ Dated
  BY <1>1, <1>2 DEF CaseShaped, CaseWorks, MadeOnce, Dated
<1>4. Orderly
  BY <1>1 DEF Orderly, OneOpened, Support!Opened, WonOnce, StayClosed, NotesKept
<1>5. \A p \in Procs : CaseReadsNow(work[p])
  BY DEF CaseReadsNow, Support!Idle
<1> QED  BY <1>3, <1>4, <1>5 DEF CaseInv, CaseInTurn

LEMMA CaseNextHolds ==
  ASSUME SomeVersions, CaseInv, [Support!Next]_(Support!vars)
  PROVE  CaseInv'
<1>1. ASSUME NEW p \in Procs, Support!Continue(p)
      PROVE  CaseInv'
  BY <1>1, CaseCreateStep, CaseUpdateStep, ReopenStep, NoteStep, CaseAbandonStep DEF Support!Continue
<1>2. CASE UNCHANGED Support!vars
  <2>1. CaseShaped' /\ MadeOnce'
    BY <1>2 DEF Support!vars, CaseInv, CaseShaped, Support!TypeOK, MadeOnce
  <2>2. Dated' /\ CaseInTurn'
    BY <1>2, OrderStays DEF Support!vars, CaseInv, CaseInTurn
  <2> QED  BY <2>1, <2>2 DEF CaseInv
<1> QED  BY <1>1, <1>2, CaseBeginStep, ReceiptStep, PurgeStep DEF Support!Next

LEMMA CaseInvSuffices ==
  ASSUME CaseInv
  PROVE  Support!CasesAreOrderly
<1>1. Support!KeysChangeOnce
  BY DEF CaseInv, MadeOnce, Dated, Support!KeysChangeOnce
<1>2. ASSUME calm
      PROVE  Cardinality(Support!Opened) <= 1
  <2>1. CASE Support!Opened = {}
    BY <2>1, FS_EmptySet
  <2>2. CASE Support!Opened # {}
    <3> PICK c \in Support!Opened : Support!Opened = {c}
      BY <1>2, <2>2 DEF CaseInv, CaseInTurn, Orderly, OneOpened
    <3> QED  BY FS_Singleton
  <2> QED  BY <2>1, <2>2
<1>3. Support!CasesFollowTheirOrder
  BY <1>2, CaseCounts DEF CaseInv, CaseInTurn, Orderly, WonOnce, StayClosed, NotesKept,
     Support!CasesFollowTheirOrder
<1> QED  BY <1>1, <1>3 DEF Support!CasesAreOrderly

\* A key changes a support case once, and of requests that follow each other the cases keep their order
\* (support-cases/service.ts:136-407), for every number of agents' keys, cases and versions.
THEOREM CasesStayOrderly ==
  ASSUME SomeVersions
  PROVE  Support!Spec => []Support!CasesAreOrderly
<1>1. Support!Spec => []CaseInv
  BY CaseInitHolds, CaseNextHolds, PTL DEF Support!Spec
<1> QED  BY <1>1, CaseInvSuffices, PTL
===============================================================================
