---------------------------- MODULE ChangeFeedProofs ----------------------------
(* Proofs about ChangeFeed: what a page, a token and a client's mirror hold,    *)
(* for any number of requests, accounts, files and clients.                     *)
EXTENDS ChangeFeed, SequenceTheorems, FiniteSetTheorems, TLAPS

-----------------------------------------------------------------------------
(* The inductive invariant *)

\* R has one change for each revision after a and up to m.
Run(R, a, m) ==
  /\ \A r \in R : r.revision \in a + 1 .. m
  /\ \A i \in a + 1 .. m : \E r \in R : r.revision = i
  /\ \A r, q \in R : r.revision = q.revision => r = q

\* The revisions of an account are counted without a gap, and its row is inserted
\* by one transaction at a time, never again.
LogFits ==
  /\ \A o \in Owners :
       /\ Committed(o) <= MaxRevision
       /\ Run({r \in changes : r.owner = o}, 0, Committed(o))
       /\ registering[o] # Nobody => o \notin DOMAIN revision
  /\ \A r \in changes : r.version \in {0, r.revision}

\* A file is what its last change made it, and every change is by its owner.
FilesFit ==
  /\ \A r \in changes : r.file \in DOMAIN files /\ files[r.file].owner = r.owner
  /\ \A f \in DOMAIN files : \E r \in changes :
       /\ r.file = f /\ r.version = files[f].version
       /\ \A q \in changes : q.file = f => q.revision <= r.revision

\* The listing that the changes up to revision n add up to, and the last of them.
Last(r, n) ==
  \A q \in changes : q.owner = r.owner /\ q.file = r.file /\ q.revision <= n => q.revision <= r.revision
Replay(o, n) ==
  {<<r.file, r.version>> :
     r \in {q \in changes : q.owner = o /\ q.revision <= n /\ q.version > 0 /\ Last(q, n)}}
PastFits ==
  \A o \in Owners :
    /\ Len(past[o]) = Committed(o)
    /\ \A n \in 1 .. Committed(o) : past[o][n] = Replay(o, n)

\* A token promises nothing beyond what is committed.
Bounded(t) == t \in Tokens /\ EndOf(t) <= Committed(t.owner)

\* rows are the changes of o with the revisions after a.
IsRun(rows, o, a) ==
  \A i \in 1 .. Len(rows) :
    rows[i] \in changes /\ rows[i].owner = o /\ rows[i].revision = a + i

PageFits(w) ==
  LET t == task[w].token
      next == answer[w].next
      rows == answer[w].rows
  IN /\ answer[w] \in [status: {"page"}, next: Tokens, rows: Seq(ChangeRow)]
     /\ t.owner = Mine(w) /\ next.owner = Mine(w) /\ Bounded(next)
     /\ t.after <= next.after /\ Len(rows) = next.after - t.after
     /\ IsRun(rows, Mine(w), t.after)
     /\ next.kind = "page" => Len(rows) = task[w].limit
     /\ t.kind = "page" => t.upper = EndOf(next)

StartFits(w) ==
  /\ task[w] \in StartTask
  /\ pc[w] \in {"account", "revision", "reply"}
  /\ pc[w] = "reply" =>
       /\ answer[w] \in [status: {"token"}, next: Checkpoints]
       /\ answer[w].next.owner = Mine(w) /\ Bounded(answer[w].next)

\* The upper bound of a request stays between its token and what is committed, so
\* that the second look at the account cannot refuse it.
ListFits(w) ==
  LET t == task[w].token
  IN /\ task[w] \in ListTask /\ Bounded(t)
     /\ pc[w] # "reply" => t.owner = Mine(w)
     /\ pc[w] \in {"account", "revision"} => t.kind = "checkpoint"
     /\ pc[w] \in {"page_account", "bounds", "rows"} =>
          /\ t.after <= upper[w] /\ upper[w] <= Committed(Mine(w))
          /\ t.kind = "page" => upper[w] = t.upper
     /\ pc[w] = "reply" =>
          \/ PageFits(w)
          \/ answer[w] = Refused /\ t.owner # Mine(w)

\* A client has the changes from its start up to its token, and none without one.
HeldFits(c) ==
  /\ held[c] = None => got[c] = <<>>
  /\ held[c] # None =>
       /\ Bounded(held[c]) /\ held[c].owner = OwnerOf[c]
       /\ start[c] + Len(got[c]) = held[c].after
       /\ IsRun(got[c], OwnerOf[c], start[c])

FInv ==
  /\ TypeOK /\ LogFits /\ FilesFit /\ PastFits
  /\ \A w \in Workers : pc[w] # "idle" => StartFits(w) \/ ListFits(w)
  /\ \A c \in Clients : HeldFits(c)

-----------------------------------------------------------------------------
(* ORDER BY revision LIMIT n *)

LEMMA CountRun ==
  ASSUME NEW R, NEW a \in Nat, NEW m \in Nat, a <= m, Run(R, a, m)
  PROVE  IsFiniteSet(R) /\ Cardinality(R) = m - a
<1>1. PICK I : I = a + 1 .. m
  OBVIOUS
<1>2. IsFiniteSet(I) /\ Cardinality(I) = m - a
  <2>1. PICK b \in Int : b = a + 1
    OBVIOUS
  <2>2. IsFiniteSet(b .. m) /\ Cardinality(b .. m) = IF b > m THEN 0 ELSE m - b + 1
    BY FS_Interval
  <2>3. b .. m = I
    BY <1>1, <2>1
  <2> QED BY <2>1, <2>2, <2>3
<1>3. PICK f : f = [r \in R |-> r.revision]
  OBVIOUS
<1>4. f \in [R -> I] /\ \A r \in R : f[r] = r.revision
  BY <1>1, <1>3 DEF Run
<1>5. f \in Injection(R, I)
  BY <1>4 DEF Run, Injection, IsInjective
<1>6. f \in Surjection(R, I)
  BY <1>1, <1>4 DEF Run, Surjection
<1> QED BY <1>2, <1>5, <1>6, FS_Injection

\* The rows that come before another one, in a table without gaps.
LEMMA CountBefore ==
  ASSUME NEW R, NEW a \in Nat, NEW m \in Nat, a <= m, Run(R, a, m), NEW r \in R
  PROVE  Cardinality({q \in R : q.revision < r.revision}) = r.revision - a - 1
<1>1. PICK B : B = {q \in R : q.revision < r.revision}
  OBVIOUS
<1>2. PICK k \in Nat : k = r.revision - 1
  BY DEF Run
<1>3. a <= k /\ k <= m
  BY <1>2 DEF Run
<1>4. Run(B, a, k)
  BY <1>1, <1>2, <1>3 DEF Run
<1>5. Cardinality(B) = k - a
  BY <1>3, <1>4, CountRun
<1>6. Cardinality(B) = r.revision - a - 1
  BY <1>2, <1>5 DEF Run
<1> QED BY <1>1, <1>6

\* s are the first n of the changes R, which have the revisions after a up to m.
FirstOf(s, R, a, m, n) ==
  /\ s \in Seq(R) /\ Len(s) = IF n < m - a THEN n ELSE m - a
  /\ \A i \in 1 .. Len(s) : s[i] \in R /\ s[i].revision = a + i

LEMMA FirstRowsFacts ==
  ASSUME NEW R, NEW a \in Nat, NEW m \in Nat, a <= m, Run(R, a, m), NEW n \in Nat
  PROVE  FirstOf(FirstRows(R, n), R, a, m, n)
<1>1. Cardinality(R) = m - a
  BY CountRun
<1>2. PICK k \in Nat : k = IF n < m - a THEN n ELSE m - a
  OBVIOUS
<1>3. PICK s : s = FirstRows(R, n)
  OBVIOUS
<1> DEFINE row(i) == CHOOSE r \in R : Cardinality({q \in R : q.revision < r.revision}) = i - 1
<1>4. s = [i \in 1 .. k |-> row(i)]
  BY <1>1, <1>2, <1>3 DEF FirstRows
<1> HIDE DEF row
<1>5. ASSUME NEW i \in 1 .. k
      PROVE  s[i] \in R /\ s[i].revision = a + i
  <2>1. PICK r \in R : r.revision = a + i
    BY <1>2 DEF Run
  <2>2. Cardinality({q \in R : q.revision < r.revision}) = i - 1
    BY <2>1, CountBefore
  <2>3. s[i] \in R /\ Cardinality({q \in R : q.revision < s[i].revision}) = i - 1
    BY <1>4, <2>2 DEF row
  <2>4. PICK q \in R : q = s[i]
    BY <2>3
  <2>5. Cardinality({x \in R : x.revision < q.revision}) = q.revision - a - 1
    BY CountBefore
  <2>6. q.revision \in a + 1 .. m
    BY DEF Run
  <2> QED BY <2>3, <2>4, <2>5, <2>6
<1>6. s \in [1 .. k -> R]
  <2>1. \A i \in 1 .. k : row(i) \in R
    BY <1>4, <1>5
  <2> QED BY <1>4, <2>1
<1>7. s \in Seq(R) /\ Len(s) = k
  BY <1>6
<1> QED BY <1>2, <1>3, <1>5, <1>7 DEF FirstOf

-----------------------------------------------------------------------------
(* The changes of an account *)

LEMMA CommittedType ==
  ASSUME TypeOK, NEW o
  PROVE  Committed(o) \in Nat
BY DEF TypeOK, Committed

LEMMA ChangeFacts ==
  ASSUME TypeOK, LogFits, NEW r \in changes
  PROVE  /\ r \in ChangeRow /\ r.owner \in Owners /\ r.file \in FileIds
         /\ r.revision \in 1 .. Committed(r.owner) /\ r.version \in {0, r.revision}
<1>1. r \in ChangeRow
  BY DEF TypeOK
<1>2. r.owner \in Owners /\ r.file \in FileIds
  BY <1>1 DEF ChangeRow
<1>3. r.revision \in 1 .. Committed(r.owner)
  BY <1>2 DEF LogFits, Run
<1> QED BY <1>1, <1>2, <1>3 DEF LogFits

LEMMA SelectRun ==
  ASSUME TypeOK, LogFits, NEW o \in Owners, NEW a \in Nat, NEW u \in Nat, NEW m \in Nat,
         a <= m, m = IF u < Committed(o) THEN u ELSE Committed(o)
  PROVE  Run(Select(o, a, u), a, m)
<1>1. PICK C : C = {r \in changes : r.owner = o}
  OBVIOUS
<1>2. PICK c \in Nat : c = Committed(o)
  BY CommittedType
<1>3. Run(C, 0, c)
  BY <1>1, <1>2 DEF LogFits
<1>4. PICK S : S = Select(o, a, u)
  OBVIOUS
<1>5. \A r : r \in S <=> r \in C /\ r.revision > a /\ r.revision <= u
  BY <1>1, <1>4 DEF Select
<1>6. \A r \in S : r.revision \in a + 1 .. m
  BY <1>2, <1>3, <1>5 DEF Run
<1>7. \A i \in a + 1 .. m : \E r \in S : r.revision = i
  <2>1. SUFFICES ASSUME NEW i \in a + 1 .. m PROVE \E r \in S : r.revision = i
    OBVIOUS
  <2>2. i \in 1 .. c /\ i > a /\ i <= u
    BY <1>2
  <2> QED BY <1>3, <1>5, <2>2 DEF Run
<1> QED BY <1>3, <1>4, <1>5, <1>6, <1>7 DEF Run

\* What a query for the changes of an account returns: the first n after a up to m.
Selected(s, o, a, m, n) ==
  /\ s \in Seq(ChangeRow) /\ Len(s) = IF n < m - a THEN n ELSE m - a
  /\ IsRun(s, o, a)

LEMMA SelectedRows ==
  ASSUME TypeOK, LogFits, NEW o \in Owners, NEW a \in Nat, NEW u \in Nat, NEW m \in Nat,
         a <= m, m = IF u < Committed(o) THEN u ELSE Committed(o), NEW n \in Nat
  PROVE  Selected(FirstRows(Select(o, a, u), n), o, a, m, n)
<1>0. PICK s : s = FirstRows(Select(o, a, u), n)
  OBVIOUS
<1>1. PICK S : S = Select(o, a, u)
  OBVIOUS
<1>2. S \subseteq ChangeRow /\ \A r \in S : r \in changes /\ r.owner = o
  BY <1>1 DEF TypeOK, Select
<1>3. Run(S, a, m)
  BY <1>1, SelectRun
<1>4. /\ s \in Seq(S) /\ Len(s) = IF n < m - a THEN n ELSE m - a
      /\ \A i \in 1 .. Len(s) : s[i] \in S /\ s[i].revision = a + i
  <2>1. s = FirstRows(S, n)
    BY <1>0, <1>1
  <2>2. FirstOf(FirstRows(S, n), S, a, m, n)
    BY <1>3, FirstRowsFacts
  <2> QED BY <2>1, <2>2 DEF FirstOf
<1>5. s \in Seq(ChangeRow)
  BY <1>2, <1>4, SeqMonotonic
<1> QED BY <1>0, <1>2, <1>4, <1>5 DEF Selected, IsRun

\* Two runs of the same account that begin at the same place and are equally long
\* are the same.
LEMMA SameRun ==
  ASSUME TypeOK, LogFits, NEW o, NEW a, NEW s \in Seq(ChangeRow), NEW t \in Seq(ChangeRow),
         IsRun(s, o, a), IsRun(t, o, a), Len(s) = Len(t)
  PROVE  s = t
<1>1. ASSUME NEW i \in 1 .. Len(s)
      PROVE  s[i] = t[i]
  <2>1. /\ s[i] \in changes /\ s[i].owner = o /\ s[i].revision = a + i
        /\ t[i] \in changes /\ t[i].owner = o /\ t[i].revision = a + i
    BY DEF IsRun
  <2>2. o \in Owners
    BY <2>1, ChangeFacts
  <2> QED BY <2>1, <2>2 DEF LogFits, Run
<1> QED BY <1>1, SeqEqual

\* Runs that follow each other are one.
LEMMA JoinedRuns ==
  ASSUME NEW o, NEW a \in Nat, NEW b \in Nat, NEW s \in Seq(ChangeRow), NEW t \in Seq(ChangeRow),
         IsRun(s, o, a), IsRun(t, o, b), a + Len(s) = b
  PROVE  Selected(s \o t, o, a, b + Len(t), Len(s) + Len(t))
<1>1. PICK j : j = s \o t
  OBVIOUS
<1>2. PICK m \in Nat, n \in Nat : m = Len(s) /\ n = Len(t)
  OBVIOUS
<1>3. /\ j \in Seq(ChangeRow) /\ Len(j) = m + n
      /\ \A i \in 1 .. m + n : j[i] = IF i <= m THEN s[i] ELSE t[i - m]
  BY <1>1, <1>2, ConcatProperties
<1>4. ASSUME NEW i \in 1 .. m + n
      PROVE  j[i] \in changes /\ j[i].owner = o /\ j[i].revision = a + i
  <2>1. CASE i <= m
    <3>1. i \in 1 .. m
      BY <2>1
    <3> QED BY <1>2, <1>3, <2>1, <3>1 DEF IsRun
  <2>2. CASE i > m
    <3>1. PICK k \in 1 .. n : k = i - m
      BY <2>2
    <3>2. j[i] = t[k]
      BY <1>3, <2>2, <3>1
    <3>3. a + m = b
      BY <1>2
    <3>4. b + k = a + i
      BY <3>1, <3>3
    <3> QED BY <1>2, <3>2, <3>4 DEF IsRun
  <2> QED BY <2>1, <2>2
<1>5. m + n = IF m + n < (b + n) - a THEN m + n ELSE (b + n) - a
  BY <1>2
<1> QED BY <1>1, <1>2, <1>3, <1>4, <1>5 DEF Selected, IsRun

-----------------------------------------------------------------------------
(* Mutations *)

\* Replaying all changes of an account gives what its files are now.
LEMMA ListingIsReplay ==
  ASSUME TypeOK', LogFits', FilesFit', NEW o \in Owners, NEW c, c = Committed(o)'
  PROVE  Listing(o, files)' = Replay(o, c)'
<1>1. ASSUME NEW r \in changes', r.owner = o
      PROVE  r.revision \in Nat /\ r.revision <= c
  <2>1. r.revision \in 1 .. c
    BY <1>1 DEF LogFits, Run
  <2>2. c \in Nat
    BY DEF TypeOK, Committed
  <2> QED BY <2>1, <2>2
<1>2. ASSUME NEW f \in DOMAIN files', files'[f].owner = o, files'[f].version > 0
      PROVE  <<f, files'[f].version>> \in Replay(o, c)'
  <2>1. PICK r \in changes' : /\ r.file = f /\ r.version = files'[f].version
                              /\ \A q \in changes' : q.file = f => q.revision <= r.revision
    BY DEF FilesFit
  <2>2. r.owner = o
    BY <1>2, <2>1 DEF FilesFit
  <2>3. r.revision <= c /\ Last(r, c)'
    BY <1>1, <2>1, <2>2 DEF Last
  <2> QED BY <1>2, <2>1, <2>2, <2>3 DEF Replay
<1>3. ASSUME NEW r \in changes', r.owner = o, r.version > 0, Last(r, c)'
      PROVE  <<r.file, r.version>> \in Listing(o, files)'
  <2>1. r.file \in DOMAIN files' /\ files'[r.file].owner = o
    BY <1>3 DEF FilesFit
  <2>2. PICK q \in changes' : /\ q.file = r.file /\ q.version = files'[r.file].version
                              /\ \A x \in changes' : x.file = r.file => x.revision <= q.revision
    BY <2>1 DEF FilesFit
  <2>3. q.owner = o /\ r.revision <= q.revision
    BY <2>1, <2>2 DEF FilesFit
  <2>4. q.revision <= r.revision
    BY <1>1, <1>3, <2>2, <2>3 DEF Last
  <2>5. q.revision \in Nat /\ r.revision \in Nat
    BY <1>1, <1>3, <2>3
  <2>6. q.revision = r.revision
    BY <2>3, <2>4, <2>5
  <2>7. q = r
    BY <1>3, <2>3, <2>6 DEF LogFits, Run
  <2> QED BY <1>3, <2>1, <2>2, <2>7 DEF Listing
<1> QED BY <1>1, <1>2, <1>3 DEF Listing, Replay

\* A change that comes later is not replayed.
LEMMA ReplayStable ==
  ASSUME TypeOK, LogFits, NEW o, NEW n, NEW x, changes' = changes \cup {x},
         x.owner = o => ~(x.revision <= n)
  PROVE  Replay(o, n)' = Replay(o, n)
<1>1. ASSUME NEW r \in changes, r.owner = o
      PROVE  Last(r, n)' <=> Last(r, n)
  BY <1>1 DEF Last
<1> QED BY <1>1 DEF Replay

\* What one mutation does to the tables: revision n of the account, with the change
\* x of file f, whose version is v.
Published(o, f, n, v, x) ==
  /\ n = Committed(o) + 1 /\ n <= MaxRevision /\ v \in {0, n}
  /\ x.owner = o /\ x.revision = n /\ x.file = f /\ x.version = v
  /\ x = [owner |-> o, revision |-> n, file |-> f, version |-> v]
  /\ registering[o] = Nobody
  /\ revision' = Put(revision, o, n)
  /\ Committed(o)' = n /\ \A y \in Owners \ {o} : Committed(y)' = Committed(y)
  /\ changes' = changes \cup {x}
  /\ files' = Put(files, f, [owner |-> o, version |-> v])
  /\ past' = [past EXCEPT ![o] = Append(@, Listing(o, files'))]
  /\ UNCHANGED <<registering, requests, clients>>

LEMMA PublishFacts ==
  ASSUME FInv, NEW o \in Owners, NEW f \in FileIds, NEW deleted \in BOOLEAN,
         Publish(o, f, deleted)
  PROVE  \E n \in Nat \ {0}, v \in Nat, x \in ChangeRow : Published(o, f, n, v, x)
<1>1. PICK n \in Nat \ {0} : n = Committed(o) + 1
  BY CommittedType DEF FInv
<1>2. PICK v \in {0, n} : v = IF deleted THEN 0 ELSE n
  OBVIOUS
<1>3. PICK x : x = [owner |-> o, revision |-> n, file |-> f, version |-> v]
  OBVIOUS
<1>4. /\ n <= MaxRevision /\ registering[o] = Nobody
      /\ revision' = Put(revision, o, n)
      /\ changes' = changes \cup {x}
      /\ files' = Put(files, f, [owner |-> o, version |-> v])
      /\ past' = [past EXCEPT ![o] = Append(@, Listing(o, files'))]
      /\ UNCHANGED <<registering, requests, clients>>
  BY <1>1, <1>2, <1>3 DEF Publish
<1>5. Committed(o)' = n /\ \A y \in Owners \ {o} : Committed(y)' = Committed(y)
  BY <1>4 DEF Committed, Put
<1>6. x \in ChangeRow /\ x.owner = o /\ x.revision = n /\ x.file = f /\ x.version = v
  BY <1>1, <1>2, <1>3 DEF ChangeRow
<1>7. Published(o, f, n, v, x)
  BY <1>1, <1>2, <1>3, <1>4, <1>5, <1>6 DEF Published
<1> QED BY <1>2, <1>6, <1>7

LEMMA PublishStep ==
  ASSUME FInv, NEW o \in Owners, NEW f \in FileIds, NEW deleted \in BOOLEAN,
         Publish(o, f, deleted), f \in DOMAIN files => files[f].owner = o
  PROVE  /\ TypeOK' /\ LogFits' /\ FilesFit' /\ PastFits'
         /\ changes \subseteq changes' /\ \A y \in Owners : Committed(y) <= Committed(y)'
<1> USE DEF FInv
<1>0. PICK n \in Nat \ {0}, v \in Nat, x \in ChangeRow : Published(o, f, n, v, x)
  BY PublishFacts
<1>1. /\ n = Committed(o) + 1 /\ n <= MaxRevision /\ v \in {0, n}
      /\ x.owner = o /\ x.revision = n /\ x.file = f /\ x.version = v
      /\ registering[o] = Nobody
      /\ revision' = Put(revision, o, n)
      /\ Committed(o)' = n /\ \A y \in Owners \ {o} : Committed(y)' = Committed(y)
      /\ changes' = changes \cup {x}
      /\ files' = Put(files, f, [owner |-> o, version |-> v])
      /\ past' = [past EXCEPT ![o] = Append(@, Listing(o, files'))]
      /\ UNCHANGED <<registering, requests, clients>>
  BY <1>0 DEF Published
<1>2. /\ DOMAIN files' = DOMAIN files \cup {f} /\ files'[f] = [owner |-> o, version |-> v]
      /\ \A g \in DOMAIN files \ {f} : files'[g] = files[g]
  BY <1>1 DEF Put
<1>3. TypeOK'
  <2>1. DOMAIN revision' \subseteq Owners /\ revision' \in [DOMAIN revision' -> Nat]
    BY <1>1 DEF TypeOK, Put
  <2>2. DOMAIN files' \subseteq FileIds /\ files' \in [DOMAIN files' -> [owner: Owners, version: Nat]]
    BY <1>1 DEF TypeOK, Put
  <2>3. Listing(o, files') \in SUBSET (FileIds \X Nat)
    BY <2>2 DEF Listing
  <2>4. past' \in [Owners -> Seq(SUBSET (FileIds \X Nat))]
    BY <1>1, <2>3 DEF TypeOK
  <2>5. changes' \subseteq ChangeRow
    BY <1>1 DEF TypeOK
  <2> QED BY <1>1, <2>1, <2>2, <2>4, <2>5 DEF TypeOK, requests, clients
<1>4. LogFits'
  <2>1. ASSUME NEW y \in Owners
        PROVE  Run({r \in changes' : r.owner = y}, 0, Committed(y)')
    <3>1. PICK c \in Nat : c = Committed(y)
      BY CommittedType
    <3>2. PICK S, T : S = {r \in changes : r.owner = y} /\ T = {r \in changes' : r.owner = y}
      OBVIOUS
    <3>3. Run(S, 0, c)
      BY <3>1, <3>2 DEF LogFits
    <3>4. CASE y = o
      <4>1. T = S \cup {x} /\ n = c + 1 /\ Committed(y)' = n
        BY <1>1, <3>1, <3>2, <3>4
      <4>2. Run(T, 0, n)
        BY <1>1, <3>3, <4>1 DEF Run
      <4> QED BY <3>2, <4>1, <4>2
    <3>5. CASE y # o
      <4>1. T = S /\ Committed(y)' = c
        BY <1>1, <3>1, <3>2, <3>5
      <4> QED BY <3>2, <3>3, <4>1
    <3> QED BY <3>4, <3>5
  <2>2. \A y \in Owners : Committed(y)' <= MaxRevision
    BY <1>1 DEF LogFits
  <2>3. \A y \in Owners : registering'[y] # Nobody => y \notin DOMAIN revision'
    BY <1>1 DEF LogFits, Put
  <2>4. \A r \in changes' : r.version \in {0, r.revision}
    BY <1>1 DEF LogFits
  <2> QED BY <2>1, <2>2, <2>3, <2>4 DEF LogFits
<1>5. FilesFit'
  <2>1. ASSUME NEW r \in changes'
        PROVE  r.file \in DOMAIN files' /\ files'[r.file].owner = r.owner
    BY <1>1, <1>2, <2>1 DEF FilesFit
  <2>2. ASSUME NEW g \in DOMAIN files'
        PROVE  \E r \in changes' : /\ r.file = g /\ r.version = files'[g].version
                                   /\ \A q \in changes' : q.file = g => q.revision <= r.revision
    <3>1. CASE g = f
      <4>1. \A q \in changes' : q.file = f => q.owner = o
        BY <1>1, <1>2, <2>1
      <4>2. \A q \in changes' : q.file = f => q.revision <= n
        BY <1>1, <4>1, ChangeFacts, CommittedType
      <4> QED BY <1>1, <1>2, <3>1, <4>2
    <3>2. CASE g # f
      BY <1>1, <1>2, <3>2 DEF FilesFit
    <3> QED BY <3>1, <3>2
  <2> QED BY <2>1, <2>2 DEF FilesFit
<1>6. PastFits'
  <2>1. Listing(o, files') = Replay(o, n)'
    <3>1. Listing(o, files)' = Replay(o, n)'
      BY <1>1, <1>3, <1>4, <1>5, ListingIsReplay
    <3> QED BY <3>1
  <2>2. ASSUME NEW y \in Owners
        PROVE  Len(past'[y]) = Committed(y)' /\ \A i \in 1 .. Committed(y)' : past'[y][i] = Replay(y, i)'
    <3>1. ASSUME NEW i \in 1 .. Committed(y)
          PROVE  Replay(y, i)' = Replay(y, i)
      <4>1. y = o => ~(n <= i)
        BY <1>1, CommittedType
      <4> QED BY <1>1, <4>1, ReplayStable
    <3>2. CASE y = o
      <4>1. PICK c \in Nat : c = Committed(o)
        BY CommittedType
      <4>2. PICK p : p = past[o]
        OBVIOUS
      <4>3. p \in Seq(SUBSET (FileIds \X Nat)) /\ Len(p) = c
        BY <4>1, <4>2 DEF TypeOK, PastFits
      <4>4. PICK l : l = Listing(o, files')
        OBVIOUS
      <4>5. past'[o] = Append(p, l)
        BY <1>1, <4>2, <4>4 DEF TypeOK
      <4>6. Len(past'[o]) = n /\ past'[o][n] = l /\ \A i \in 1 .. c : past'[o][i] = p[i]
        <5>1. l \in SUBSET (FileIds \X Nat)
          BY <1>3, <4>4 DEF TypeOK, Listing
        <5>2. /\ Len(Append(p, l)) = c + 1 /\ Append(p, l)[c + 1] = l
              /\ \A i \in 1 .. c : Append(p, l)[i] = p[i]
          BY <4>3, <5>1, AppendProperties
        <5> QED BY <1>1, <4>1, <4>5, <5>2
      <4>7. \A i \in 1 .. n : i = n \/ i \in 1 .. c
        BY <1>1, <4>1
      <4>8. \A i \in 1 .. c : p[i] = Replay(o, i)'
        BY <3>1, <3>2, <4>1, <4>2 DEF PastFits
      <4> QED BY <1>1, <2>1, <3>2, <4>4, <4>6, <4>7, <4>8
    <3>3. CASE y # o
      BY <1>1, <3>1, <3>3 DEF PastFits, TypeOK
    <3> QED BY <3>2, <3>3
  <2> QED BY <2>2 DEF PastFits
<1>7. \A y \in Owners : Committed(y) <= Committed(y)'
  BY <1>1, CommittedType
<1> QED BY <1>1, <1>3, <1>4, <1>5, <1>6, <1>7

-----------------------------------------------------------------------------
(* Steps of requests *)

\* What is committed and every change stay, so that tokens and pages stay true.
LEMMA GrowFits ==
  ASSUME FInv, TypeOK', changes \subseteq changes', \A y \in Owners : Committed(y) <= Committed(y)'
  PROVE  /\ \A t : Bounded(t) => Bounded(t)'
         /\ \A rows, o, a : IsRun(rows, o, a) => IsRun(rows, o, a)'
<1>1. ASSUME NEW t, Bounded(t)
      PROVE  Bounded(t)'
  <2>1. t \in Tokens /\ t.owner \in Owners /\ EndOf(t) \in Nat
    BY <1>1 DEF Bounded, Tokens, Checkpoints, Pages, EndOf
  <2>2. Committed(t.owner) \in Nat /\ Committed(t.owner)' \in Nat
    BY DEF FInv, TypeOK, Committed
  <2> QED BY <1>1, <2>1, <2>2 DEF Bounded
<1>2. ASSUME NEW rows, NEW o, NEW a, IsRun(rows, o, a)
      PROVE  IsRun(rows, o, a)'
  BY <1>2 DEF IsRun
<1> QED BY <1>1, <1>2

LEMMA OtherWorker ==
  ASSUME FInv, TypeOK', changes \subseteq changes', \A y \in Owners : Committed(y) <= Committed(y)',
         NEW w \in Workers, pc[w] # "idle",
         pc'[w] = pc[w], task'[w] = task[w], upper'[w] = upper[w], answer'[w] = answer[w]
  PROVE  StartFits(w)' \/ ListFits(w)'
<1>1. /\ \A t : Bounded(t) => Bounded(t)'
      /\ \A rows, o, a : IsRun(rows, o, a) => IsRun(rows, o, a)'
  BY GrowFits
<1>2. Mine(w)' = Mine(w)
  BY DEF Mine
<1>3. CASE StartFits(w)
  BY <1>1, <1>2, <1>3 DEF StartFits
<1>4. CASE ListFits(w)
  <2>1. Mine(w) \in Owners /\ upper[w] \in Nat
    BY <1>4, ChangeFeedAssumption DEF ListFits, ListTask, Mine, FInv, TypeOK
  <2>2. upper[w] <= Committed(Mine(w)) => upper[w] <= Committed(Mine(w))'
    <3>1. PICK o \in Owners : o = Mine(w) /\ o = Mine(w)'
      BY <1>2, <2>1
    <3>2. Committed(o) <= Committed(o)' /\ Committed(o) \in Nat /\ Committed(o)' \in Nat
      BY DEF FInv, TypeOK, Committed
    <3>3. Committed(Mine(w)) = Committed(o) /\ Committed(Mine(w))' = Committed(o)'
      BY <3>1 DEF Committed
    <3> QED BY <2>1, <3>2, <3>3
  <2>3. PageFits(w) => PageFits(w)'
    BY <1>1, <1>2 DEF PageFits
  <2>4. Refused' = Refused
    BY DEF Refused
  <2> QED BY <1>1, <1>2, <1>4, <2>2, <2>3, <2>4 DEF ListFits
<1> QED BY <1>3, <1>4 DEF FInv

LEMMA SameClient ==
  ASSUME FInv, TypeOK', changes \subseteq changes', \A y \in Owners : Committed(y) <= Committed(y)',
         NEW c \in Clients, held'[c] = held[c], start'[c] = start[c], got'[c] = got[c]
  PROVE  HeldFits(c)'
<1>1. HeldFits(c)
  BY DEF FInv
<1> QED BY <1>1, GrowFits DEF HeldFits

\* A request inserts the account row at most, which changes no revision.
TablesKept ==
  /\ UNCHANGED <<changes, files, past>>
  /\ \A o \in Owners : Committed(o)' = Committed(o)
  /\ DOMAIN revision' \subseteq Owners /\ revision' \in [DOMAIN revision' -> Nat]
  /\ registering' \in [Owners -> Workers \cup {Nobody}]
  /\ \A o \in Owners : registering'[o] # Nobody => o \notin DOMAIN revision'

LEMMA KeptFits ==
  ASSUME FInv, TablesKept
  PROVE  LogFits' /\ FilesFit' /\ PastFits'
<1> USE DEF FInv, TablesKept
<1>1. LogFits'
  <2>1. ASSUME NEW o \in Owners
        PROVE  Committed(o)' <= MaxRevision /\ Run({r \in changes' : r.owner = o}, 0, Committed(o)')
    BY DEF LogFits
  <2> QED BY <2>1 DEF LogFits
<1>2. FilesFit'
  BY DEF FilesFit
<1>3. ASSUME NEW o, NEW n
      PROVE  Replay(o, n)' = Replay(o, n)
  BY DEF Replay, Last
<1>4. PastFits'
  BY <1>3 DEF PastFits
<1> QED BY <1>1, <1>2, <1>4

LEMMA EndsKeepTables ==
  ASSUME FInv, NEW w \in Workers, Mine(w) \in Owners, UNCHANGED <<changes, files, past>>,
         Commit(w) \/ Rollback(w) \/ UNCHANGED <<revision, registering>>
  PROVE  TablesKept
<1> USE DEF FInv, TablesKept
<1>1. CASE UNCHANGED <<revision, registering>>
  BY <1>1 DEF TypeOK, LogFits, Committed
<1>2. CASE Rollback(w)
  BY <1>2 DEF Rollback, FreedBy, TypeOK, LogFits, Committed
<1>3. CASE Commit(w) /\ registering[Mine(w)] # w
  BY <1>3 DEF Commit, FreedBy, TypeOK, LogFits, Committed
<1>4. CASE Commit(w) /\ registering[Mine(w)] = w
  <2>1. PICK o \in Owners : o = Mine(w)
    OBVIOUS
  <2>2. revision' = Put(revision, o, 0) /\ registering' = FreedBy(w) /\ registering[o] = w
    BY <1>4, <2>1 DEF Commit
  <2>3. o \notin DOMAIN revision
    BY <2>2, ChangeFeedAssumption DEF LogFits
  <2>4. ASSUME NEW x \in Owners
        PROVE  Committed(x)' = Committed(x)
    <3>1. DOMAIN revision' = DOMAIN revision \cup {o} /\ revision'[o] = 0
          /\ \A y \in DOMAIN revision : y # o => revision'[y] = revision[y]
      BY <2>2 DEF Put
    <3> QED BY <2>3, <3>1 DEF Committed
  <2>5. DOMAIN revision' \subseteq Owners /\ revision' \in [DOMAIN revision' -> Nat]
    BY <2>2 DEF TypeOK, Put
  <2>6. registering' \in [Owners -> Workers \cup {Nobody}]
    BY <2>2 DEF TypeOK, FreedBy
  <2>7. \A x \in Owners : registering'[x] # Nobody => x \notin DOMAIN revision'
    <3>1. DOMAIN revision' = DOMAIN revision \cup {o}
      BY <2>2 DEF Put
    <3>2. \A x \in Owners : registering'[x] # Nobody => x # o /\ registering[x] # Nobody
      BY <2>2 DEF FreedBy
    <3> QED BY <3>1, <3>2 DEF LogFits
  <2> QED BY <2>4, <2>5, <2>6, <2>7
<1> QED BY <1>1, <1>2, <1>3, <1>4

\* A step of one request: where it is, its task, its bound and its answer.
Moves(w, label, k, u, a) ==
  /\ pc' = [pc EXCEPT ![w] = label] /\ task' = [task EXCEPT ![w] = k]
  /\ upper' = [upper EXCEPT ![w] = u] /\ answer' = [answer EXCEPT ![w] = a]

LEMMA MoveFacts ==
  ASSUME TypeOK, NEW w \in Workers, NEW label, NEW k, NEW u, NEW a, Moves(w, label, k, u, a)
  PROVE  /\ pc'[w] = label /\ task'[w] = k /\ upper'[w] = u /\ answer'[w] = a
         /\ \A v \in Workers \ {w} : /\ pc'[v] = pc[v] /\ task'[v] = task[v]
                                     /\ upper'[v] = upper[v] /\ answer'[v] = answer[v]
BY DEF TypeOK, Moves

LEMMA MoveType ==
  ASSUME FInv, NEW w \in Workers, NEW label \in PCs, NEW k \in StartTask \cup ListTask \cup {None},
         NEW u \in Nat, NEW a \in Answer \cup {None},
         Moves(w, label, k, u, a), TablesKept,
         held' \in [Clients -> Tokens \cup {None}],
         start' \in [Clients -> Nat], got' \in [Clients -> Seq(ChangeRow)]
  PROVE  TypeOK' /\ changes \subseteq changes' /\ \A y \in Owners : Committed(y) <= Committed(y)'
<1>1. TypeOK'
  BY DEF FInv, TypeOK, Moves, TablesKept
<1>2. \A y \in Owners : Committed(y) <= Committed(y)'
  BY CommittedType DEF FInv, TablesKept
<1> QED BY <1>1, <1>2 DEF TablesKept

LEMMA MoveStep ==
  ASSUME FInv, NEW w \in Workers, NEW label \in PCs, NEW k \in StartTask \cup ListTask \cup {None},
         NEW u \in Nat, NEW a \in Answer \cup {None},
         Moves(w, label, k, u, a), TablesKept, UNCHANGED clients,
         label # "idle" => StartFits(w)' \/ ListFits(w)'
  PROVE  FInv'
<1>1. UNCHANGED <<held, start, got>>
  BY DEF clients
<1>2. TypeOK' /\ changes \subseteq changes' /\ \A y \in Owners : Committed(y) <= Committed(y)'
  BY <1>1, MoveType DEF FInv, TypeOK
<1>3. \A c \in Clients : HeldFits(c)'
  BY <1>1, <1>2, SameClient
<1>4. ASSUME NEW v \in Workers, pc'[v] # "idle"
      PROVE  StartFits(v)' \/ ListFits(v)'
  <2>1. CASE v = w
    BY <1>4, <2>1, MoveFacts DEF FInv
  <2>2. CASE v # w
    BY <1>2, <1>4, <2>2, MoveFacts, OtherWorker DEF FInv
  <2> QED BY <2>1, <2>2
<1> QED BY <1>2, <1>3, <1>4, KeptFits DEF FInv

\* The tokens a client can send were sealed over what is committed.
LEMMA SentTokens ==
  ASSUME FInv, NEW c \in Clients, NEW t \in (Spare \cup {held[c]}) \ {None},
         t = held[c] \/ (t \in Spare /\ Issued(t))
  PROVE  t \in Tokens /\ Bounded(t)
<1>1. CASE t = held[c]
  BY <1>1 DEF FInv, HeldFits, Bounded
<1>2. CASE t \in Spare /\ Issued(t)
  <2>1. t \in Tokens
    BY <1>2, ChangeFeedAssumption
  <2> QED BY <1>2, <2>1 DEF Issued, Bounded, EndOf, Committed
<1> QED BY <1>1, <1>2

LEMMA AskStep ==
  ASSUME FInv, NEW w \in Workers, NEW c \in Clients, Ask(w, c)
  PROVE  FInv'
<1> USE DEF FInv
<1>1. /\ pc \in [Workers -> PCs] /\ task \in [Workers -> StartTask \cup ListTask \cup {None}]
      /\ upper \in [Workers -> Nat] /\ answer \in [Workers -> Answer \cup {None}]
  BY DEF TypeOK
<1>2. UNCHANGED tables /\ UNCHANGED registering => TablesKept
  BY DEF tables, TablesKept, TypeOK, LogFits, Committed
<1>3. ASSUME NEW position \in {"beginning", "now"}, AskStart(w, c, position)
      PROVE  FInv'
  <2>1. PICK k \in StartTask : k = [kind |-> "start", client |-> c, position |-> position]
    BY DEF StartTask
  <2>2. Moves(w, "account", k, upper[w], answer[w]) /\ TablesKept /\ UNCHANGED clients
    BY <1>1, <1>2, <1>3, <2>1 DEF AskStart, Goto, Moves
  <2>3. StartFits(w)'
    BY <2>1, <2>2, MoveFacts DEF StartFits
  <2>4. upper[w] \in Nat /\ answer[w] \in Answer \cup {None} /\ "account" \in PCs
    BY <1>1 DEF PCs
  <2> QED BY <2>2, <2>3, <2>4, MoveStep
<1>4. ASSUME NEW t \in (Spare \cup {held[c]}) \ {None}, NEW n \in Limits,
             RefuseToken(w, c, t, n) \/ AskFromCheckpoint(w, c, t, n) \/ AskPage(w, c, t, n)
      PROVE  FInv'
  <2>1. /\ t = held[c] \/ (t \in Spare /\ Issued(t))
        /\ task' = [task EXCEPT ![w] = [kind |-> "list", client |-> c, token |-> t, limit |-> n]]
        /\ UNCHANGED tables /\ UNCHANGED registering /\ UNCHANGED clients
    BY <1>4 DEF RefuseToken, AskFromCheckpoint, AskPage, Receive
  <2>2. t \in Tokens /\ Bounded(t)
    BY <2>1, SentTokens
  <2>3. PICK k : k = [kind |-> "list", client |-> c, token |-> t, limit |-> n]
    OBVIOUS
  <2>4. k \in ListTask /\ k.token = t /\ k.client = c
    BY <2>2, <2>3 DEF ListTask
  <2>5. TablesKept /\ changes' = changes /\ revision' = revision
    BY <1>2, <2>1 DEF tables
  <2>6. Bounded(t)' /\ \A o : Committed(o)' = Committed(o)
    BY <2>2, <2>5 DEF Bounded, Committed
  <2>7. CASE RefuseToken(w, c, t, n)
    <3>1. Moves(w, "reply", k, upper[w], Refused)
      BY <1>1, <2>1, <2>3, <2>7 DEF RefuseToken, Reply, Goto, Moves
    <3>2. Refused \in Answer /\ "reply" \in PCs /\ upper[w] \in Nat
      BY <1>1 DEF Refused, Answer, PCs
    <3>3. pc'[w] = "reply" /\ task'[w] = k /\ answer'[w] = Refused
      BY <3>1, MoveFacts
    <3>4. t.owner # Mine(w)'
      BY <2>4, <2>7, <3>3 DEF RefuseToken, Decodes, Mine
    <3>5. ListFits(w)'
      BY <2>4, <2>6, <3>3, <3>4 DEF ListFits, Refused
    <3> QED BY <2>1, <2>4, <2>5, <3>1, <3>2, <3>5, MoveStep
  <2>8. CASE AskFromCheckpoint(w, c, t, n)
    <3>1. Moves(w, "account", k, upper[w], answer[w]) /\ Decodes(c, t) /\ t.kind = "checkpoint"
      BY <1>1, <2>1, <2>3, <2>8 DEF AskFromCheckpoint, Goto, Moves
    <3>2. answer[w] \in Answer \cup {None} /\ "account" \in PCs /\ upper[w] \in Nat
      BY <1>1 DEF PCs
    <3>3. pc'[w] = "account" /\ task'[w] = k
      BY <3>1, MoveFacts
    <3>4. t.owner = Mine(w)'
      BY <2>4, <3>1, <3>3 DEF Decodes, Mine
    <3>5. ListFits(w)'
      BY <2>4, <2>6, <3>1, <3>3, <3>4 DEF ListFits
    <3> QED BY <2>1, <2>4, <2>5, <3>1, <3>2, <3>5, MoveStep
  <2>9. CASE AskPage(w, c, t, n)
    <3>1. Moves(w, "page_account", k, t.upper, answer[w]) /\ Decodes(c, t) /\ t.kind = "page"
      BY <1>1, <2>1, <2>3, <2>9 DEF AskPage, Goto, Moves
    <3>2. t.upper \in Nat /\ t.after <= t.upper
      BY <2>2, <3>1 DEF Tokens, Checkpoints, Pages
    <3>3. answer[w] \in Answer \cup {None} /\ "page_account" \in PCs
      BY <1>1 DEF PCs
    <3>4. pc'[w] = "page_account" /\ task'[w] = k /\ upper'[w] = t.upper
      BY <3>1, MoveFacts
    <3>5. t.owner = Mine(w)'
      BY <2>4, <3>1, <3>4 DEF Decodes, Mine
    <3>6. t.upper <= Committed(Mine(w))'
      BY <2>6, <3>1, <3>5 DEF Bounded, EndOf, Committed
    <3>7. ListFits(w)'
      BY <2>4, <2>6, <3>2, <3>4, <3>5, <3>6 DEF ListFits
    <3> QED BY <2>1, <2>4, <2>5, <3>1, <3>2, <3>3, <3>7, MoveStep
  <2> QED BY <1>4, <2>7, <2>8, <2>9
<1> QED BY <1>3, <1>4 DEF Ask

\* What is known of a request that is under way.
LEMMA UnderWay ==
  ASSUME FInv, NEW w \in Workers, pc[w] # "idle"
  PROVE  /\ StartFits(w) \/ ListFits(w)
         /\ task[w] \in StartTask \cup ListTask /\ Mine(w) \in Owners
         /\ upper[w] \in Nat /\ answer[w] \in Answer \cup {None}
         /\ StartFits(w) => task[w].kind = "start"
         /\ ListFits(w) => task[w].kind = "list" /\ task[w].limit \in 1 .. MaxPageSize
<1>1. StartFits(w) \/ ListFits(w)
  BY DEF FInv
<1>2. StartFits(w) => task[w].kind = "start" /\ task[w].client \in Clients
  BY DEF StartFits, StartTask
<1>3. ListFits(w) => task[w].kind = "list" /\ task[w].client \in Clients /\ task[w].limit \in Limits
  BY DEF ListFits, ListTask
<1>4. Mine(w) \in Owners
  BY <1>1, <1>2, <1>3, ChangeFeedAssumption DEF Mine
<1> QED BY <1>1, <1>2, <1>3, <1>4, ChangeFeedAssumption DEF FInv, TypeOK, StartFits, ListFits

LEMMA EnsureStep ==
  ASSUME FInv, NEW w \in Workers, EnsureAccount(w)
  PROVE  FInv'
<1>1. pc[w] \in {"account", "page_account"}
  BY DEF EnsureAccount
<1>2. PICK label \in {"revision", "bounds"} : label = IF pc[w] = "account" THEN "revision" ELSE "bounds"
  OBVIOUS
<1>3. Moves(w, label, task[w], upper[w], answer[w]) /\ UNCHANGED clients
  BY <1>2 DEF EnsureAccount, Goto, Moves, FInv, TypeOK
<1>4. UNCHANGED <<revision, changes, files, past>> /\ \A o : Committed(o)' = Committed(o)
  BY DEF EnsureAccount, tables, Committed
<1>5. TablesKept
  <2>1. /\ registering' \in [Owners -> Workers \cup {Nobody}]
        /\ \A o \in Owners : registering'[o] # Nobody => o \notin DOMAIN revision
    BY <1>1, UnderWay DEF EnsureAccount, FInv, TypeOK, LogFits
  <2> QED BY <1>4, <2>1 DEF TablesKept, FInv, TypeOK
<1>6. pc'[w] = label /\ task'[w] = task[w] /\ upper'[w] = upper[w]
  BY <1>3, MoveFacts DEF FInv
<1>7. Mine(w)' = Mine(w)
  BY <1>6 DEF Mine
<1>8. StartFits(w) => StartFits(w)'
  BY <1>1, <1>2, <1>6 DEF StartFits
<1>9. ListFits(w) => ListFits(w)'
  <2>1. \A t : Bounded(t)' <=> Bounded(t)
    BY <1>4 DEF Bounded
  <2>2. Committed(Mine(w))' = Committed(Mine(w))
    BY <1>4, <1>7 DEF Committed
  <2> QED BY <1>1, <1>2, <1>6, <1>7, <2>1, <2>2 DEF ListFits
<1> QED BY <1>1, <1>2, <1>3, <1>5, <1>8, <1>9, UnderWay, MoveStep DEF PCs

LEMMA RevisionStep ==
  ASSUME FInv, NEW w \in Workers, ReadRevision(w)
  PROVE  FInv'
<1>1. pc[w] = "revision" /\ Commit(w) /\ UNCHANGED <<changes, files, past, task, clients>>
  BY DEF ReadRevision
<1>2. PICK o \in Owners, c \in Nat : o = Mine(w) /\ c = Committed(o)
  BY <1>1, UnderWay, CommittedType DEF FInv
<1>3. TablesKept
  BY <1>1, <1>2, EndsKeepTables
<1>4. Committed(o)' = c
  BY <1>2, <1>3 DEF TablesKept
<1>5. ASSUME task'[w] = task[w]
      PROVE  Mine(w)' = o
  BY <1>2, <1>5 DEF Mine
<1>6. CASE StartFits(w)
  <2>1. PICK n \in 0 .. c : n = IF task[w].position = "beginning" THEN 0 ELSE c
    BY <1>2
  <2>2. PICK t : t = Checkpoint(o, n)
    OBVIOUS
  <2>3. PICK a : a = [status |-> "token", next |-> t]
    OBVIOUS
  <2>4. task[w].kind = "start" /\ task[w] \in StartTask
    BY <1>6, UnderWay DEF StartFits
  <2>5. Moves(w, "reply", task[w], upper[w], a)
    <3>1. Sealed(Mine(w), IF task[w].position = "beginning" THEN 0 ELSE Committed(Mine(w))) = t
      BY <1>2, <2>1, <2>2 DEF Sealed
    <3>2. Reply(w, a) /\ UNCHANGED upper
      BY <2>3, <2>4, <3>1 DEF ReadRevision
    <3> QED BY <1>1, <3>2 DEF Reply, Goto, Moves, FInv, TypeOK
  <2>6. t \in Checkpoints /\ t.owner = o /\ t.after = n /\ t.kind = "checkpoint"
    BY <2>1, <2>2 DEF Checkpoint, Checkpoints
  <2>7. a \in [status: {"token"}, next: Checkpoints] /\ a.next = t /\ a \in Answer
    BY <2>3, <2>6 DEF Answer
  <2>8. pc'[w] = "reply" /\ task'[w] = task[w] /\ answer'[w] = a
    BY <2>5, MoveFacts DEF FInv
  <2>9. Bounded(t)'
    BY <1>4, <2>1, <2>6 DEF Bounded, EndOf, Tokens, Committed
  <2>10. StartFits(w)'
    BY <1>5, <2>4, <2>6, <2>7, <2>8, <2>9 DEF StartFits
  <2>11. "reply" \in PCs /\ upper[w] \in Nat
    BY <1>1, UnderWay DEF PCs
  <2> QED BY <1>1, <1>3, <2>4, <2>5, <2>7, <2>10, <2>11, MoveStep
<1>7. CASE ListFits(w)
  <2>1. task[w].kind # "start" /\ task[w] \in ListTask /\ answer[w] \in Answer \cup {None}
    BY <1>1, <1>7, UnderWay DEF ListFits
  <2>2. Moves(w, "page_account", task[w], c, answer[w])
    <3>1. Goto(w, "page_account") /\ upper' = [upper EXCEPT ![w] = c] /\ UNCHANGED answer
      BY <1>2, <2>1 DEF ReadRevision
    <3> QED BY <1>1, <3>1 DEF Goto, Moves, FInv, TypeOK
  <2>3. pc'[w] = "page_account" /\ task'[w] = task[w] /\ upper'[w] = c
    BY <2>2, MoveFacts DEF FInv
  <2>4. PICK t : t = task[w].token
    OBVIOUS
  <2>5. t.kind = "checkpoint" /\ t.owner = o /\ Bounded(t)
    BY <1>1, <1>2, <1>7, <2>4 DEF ListFits
  <2>6. t.after <= c /\ Bounded(t)'
    BY <1>2, <1>4, <2>5 DEF Bounded, EndOf
  <2>7. Mine(w)' = o /\ c <= Committed(Mine(w))'
    BY <1>2, <1>4, <1>5, <2>3 DEF Committed
  <2>8. ListFits(w)'
    BY <2>1, <2>3, <2>4, <2>5, <2>6, <2>7 DEF ListFits
  <2> QED BY <1>1, <1>2, <1>3, <2>1, <2>2, <2>8, MoveStep DEF PCs
<1> QED BY <1>1, <1>6, <1>7, UnderWay

\* The second look at the account finds the bound within it.
LEMMA BoundsStep ==
  ASSUME FInv, NEW w \in Workers, ReadBounds(w)
  PROVE  FInv'
<1>1. pc[w] = "bounds" /\ UNCHANGED <<tables, task, upper, clients>>
  BY DEF ReadBounds
<1>2. ListFits(w)
  BY <1>1, UnderWay DEF StartFits
<1>3. InBounds(w)
  BY <1>1, <1>2 DEF ListFits, InBounds
<1>4. UNCHANGED <<registering, answer>> /\ Moves(w, "rows", task[w], upper[w], answer[w])
  BY <1>1, <1>3 DEF ReadBounds, Goto, Moves, FInv, TypeOK
<1>5. TablesKept /\ \A o : Committed(o)' = Committed(o)
  BY <1>1, <1>4 DEF tables, TablesKept, FInv, TypeOK, LogFits, Committed
<1>6. pc'[w] = "rows" /\ task'[w] = task[w] /\ upper'[w] = upper[w]
  BY <1>4, MoveFacts DEF FInv
<1>7. Mine(w)' = Mine(w)
  BY <1>6 DEF Mine
<1>8. Committed(Mine(w))' = Committed(Mine(w)) /\ \A t : Bounded(t)' <=> Bounded(t)
  BY <1>1, <1>7 DEF tables, Committed, Bounded
<1>9. ListFits(w)'
  BY <1>1, <1>2, <1>6, <1>7, <1>8 DEF ListFits
<1> QED BY <1>1, <1>4, <1>5, <1>9, UnderWay, MoveStep DEF PCs

LEMMA IdleStep ==
  ASSUME FInv, NEW w \in Workers, Ignore(w) \/ Fail(w)
  PROVE  FInv'
<1>1. pc[w] # "idle" /\ UNCHANGED <<changes, files, past, clients>>
  BY DEF Ignore, Fail, tables
<1>2. Moves(w, "idle", None, 0, None)
  BY DEF Ignore, Fail, Idle, Goto, Moves
<1>3. TablesKept
  BY <1>1, UnderWay, EndsKeepTables DEF Ignore, Fail, tables
<1> QED BY <1>1, <1>2, <1>3, MoveStep DEF PCs

\* The page that the service makes of the rows it has read.
LEMMA PageFacts ==
  ASSUME FInv, NEW w \in Workers, pc[w] = "rows", NEW a,
         a = PageOf(w, FirstRows(Select(Mine(w), task[w].token.after, upper[w]), task[w].limit + 1))
  PROVE  LET t == task[w].token
         IN /\ a \in [status: {"page"}, next: Tokens, rows: Seq(ChangeRow)]
            /\ a.next.owner = Mine(w) /\ EndOf(a.next) = upper[w]
            /\ t.after <= a.next.after /\ Len(a.rows) = a.next.after - t.after
            /\ IsRun(a.rows, Mine(w), t.after)
            /\ a.next.kind = "page" => Len(a.rows) = task[w].limit
<1>1. ListFits(w) /\ Mine(w) \in Owners /\ task[w].limit \in 1 .. MaxPageSize
  BY UnderWay DEF StartFits
<1>2. PICK o \in Owners : o = Mine(w)
  BY <1>1
<1>3. PICK n \in Nat : n = task[w].limit /\ n > 0
  BY <1>1 DEF MaxPageSize
<1>4. PICK t : t = task[w].token
  OBVIOUS
<1>5. t.after \in Nat /\ upper[w] \in Nat /\ t.after <= upper[w] /\ upper[w] <= Committed(o)
  BY <1>1, <1>2, <1>4 DEF ListFits, Bounded, Tokens, Checkpoints, Pages, FInv, TypeOK
<1>6. PICK b \in Nat, u \in Nat : b = t.after /\ u = upper[w] /\ b <= u
  BY <1>5
<1>7. PICK s : s = FirstRows(Select(o, b, u), n + 1)
  OBVIOUS
<1>8. /\ s \in Seq(ChangeRow) /\ Len(s) = IF n + 1 < u - b THEN n + 1 ELSE u - b
      /\ IsRun(s, o, b)
  <2>1. u = IF u < Committed(o) THEN u ELSE Committed(o)
    BY <1>5, <1>6, CommittedType DEF FInv
  <2>2. PICK m \in Nat : m = n + 1
    OBVIOUS
  <2>3. Selected(FirstRows(Select(o, b, u), m), o, b, u, m)
    BY <1>6, <2>1, SelectedRows DEF FInv
  <2>4. Selected(s, o, b, u, m)
    BY <1>7, <2>2, <2>3
  <2> QED BY <2>2, <2>4 DEF Selected
<1>9. PICK k \in Nat : k = IF Len(s) < n THEN Len(s) ELSE n
  <2>1. s \in Seq(ChangeRow)
    BY <1>8
  <2>2. PICK m \in Nat : m = Len(s)
    BY <2>1
  <2> QED BY <2>2
<1>10. PICK rows : rows = SubSeq(s, 1, k)
  OBVIOUS
<1>11. /\ rows \in Seq(ChangeRow) /\ Len(rows) = k /\ \A i \in 1 .. k : rows[i] = s[i]
       /\ k <= Len(s)
  <2>1. s \in Seq(ChangeRow)
    BY <1>8
  <2>2. PICK m \in Nat : m = Len(s)
    BY <2>1
  <2>3. k <= m
    BY <1>9, <2>2
  <2>4. /\ SubSeq(s, 1, k) \in Seq(ChangeRow) /\ Len(SubSeq(s, 1, k)) = k
        /\ \A i \in 1 .. k : SubSeq(s, 1, k)[i] = s[i]
    BY <2>1, <2>2, <2>3
  <2> QED BY <1>10, <2>2, <2>3, <2>4
<1>12. IsRun(rows, o, b)
  BY <1>8, <1>11 DEF IsRun
<1>13. a = PageOf(w, s)
  BY <1>2, <1>3, <1>4, <1>6, <1>7
<1>14. PICK last : last = IF rows = <<>> THEN t.after ELSE rows[Len(rows)].revision
  OBVIOUS
<1>15. a = IF ~HasMore(s, n)
             THEN [status |-> "page", rows |-> rows, next |-> FinalCheckpoint(o, u)]
           ELSE IF last < u
             THEN [status |-> "page", rows |-> rows, next |-> NextPage(o, last, u)]
           ELSE Refused
  BY <1>2, <1>3, <1>4, <1>6, <1>9, <1>10, <1>13, <1>14 DEF PageOf
<1>16. CASE ~HasMore(s, n)
  <2>1. k = u - b
    BY <1>8, <1>9, <1>16 DEF HasMore
  <2>2. PICK x : x = Checkpoint(o, u)
    OBVIOUS
  <2>3. a = [status |-> "page", rows |-> rows, next |-> x]
    BY <1>15, <1>16, <2>2 DEF FinalCheckpoint
  <2>4. x \in Tokens /\ x.owner = o /\ x.after = u /\ x.kind = "checkpoint" /\ EndOf(x) = u
    BY <2>2 DEF Checkpoint, Tokens, Checkpoints, EndOf
  <2>5. a \in [status: {"page"}, next: Tokens, rows: Seq(ChangeRow)] /\ a.next = x /\ a.rows = rows
    BY <1>11, <2>3, <2>4
  <2> QED BY <1>2, <1>4, <1>6, <1>11, <1>12, <2>1, <2>4, <2>5
<1>17. CASE HasMore(s, n)
  <2>1. k = n /\ n + 1 <= u - b
    BY <1>8, <1>9, <1>17 DEF HasMore
  <2>2. last = b + n
    BY <1>3, <1>11, <1>12, <1>14, <2>1, SMTT(30) DEF IsRun
  <2>3. last \in Nat /\ last < u
    BY <2>1, <2>2
  <2>4. PICK x : x = Page(o, last, u)
    OBVIOUS
  <2>5. a = [status |-> "page", rows |-> rows, next |-> x]
    BY <1>15, <1>17, <2>3, <2>4 DEF NextPage
  <2>6. x \in Tokens /\ x.owner = o /\ x.after = last /\ x.kind = "page" /\ EndOf(x) = u
    BY <2>3, <2>4 DEF Page, Tokens, Pages, EndOf
  <2>7. a \in [status: {"page"}, next: Tokens, rows: Seq(ChangeRow)] /\ a.next = x /\ a.rows = rows
    BY <1>11, <2>5, <2>6
  <2>8. b <= last /\ n = last - b
    BY <2>2
  <2> QED BY <1>2, <1>3, <1>4, <1>6, <1>11, <1>12, <2>1, <2>6, <2>7, <2>8
<1> QED BY <1>16, <1>17

LEMMA RowsStep ==
  ASSUME FInv, NEW w \in Workers, ReadRows(w)
  PROVE  FInv'
<1>1. pc[w] = "rows" /\ Commit(w) /\ UNCHANGED <<changes, files, past, task, upper, clients>>
  BY DEF ReadRows
<1>2. /\ ListFits(w) /\ Mine(w) \in Owners /\ task[w] \in ListTask
  BY <1>1, UnderWay DEF StartFits, ListFits
<1>3. PICK a : a = PageOf(w, FirstRows(Select(Mine(w), task[w].token.after, upper[w]), task[w].limit + 1))
  OBVIOUS
<1>4. PICK t : t = task[w].token
  OBVIOUS
<1>5. /\ a \in [status: {"page"}, next: Tokens, rows: Seq(ChangeRow)]
      /\ a.next.owner = Mine(w) /\ EndOf(a.next) = upper[w]
      /\ t.after <= a.next.after /\ Len(a.rows) = a.next.after - t.after
      /\ IsRun(a.rows, Mine(w), t.after)
      /\ a.next.kind = "page" => Len(a.rows) = task[w].limit
  BY <1>1, <1>3, <1>4, PageFacts
<1>6. a \in Answer /\ a.next \in Tokens
  BY <1>5 DEF Answer
<1>7. Moves(w, "reply", task[w], upper[w], a)
  <2>1. Reply(w, a)
    BY <1>3 DEF ReadRows
  <2> QED BY <1>1, <2>1 DEF Reply, Goto, Moves, FInv, TypeOK
<1>8. TablesKept
  BY <1>1, <1>2, EndsKeepTables
<1>9. pc'[w] = "reply" /\ task'[w] = task[w] /\ answer'[w] = a
  BY <1>7, MoveFacts DEF FInv
<1>10. Mine(w)' = Mine(w)
  BY <1>9 DEF Mine
<1>11. \A x : IsRun(x, Mine(w), t.after)' <=> IsRun(x, Mine(w), t.after)
  BY <1>1, <1>10 DEF IsRun
<1>12. /\ Bounded(t) /\ upper[w] <= Committed(Mine(w)) /\ t.owner = Mine(w)
       /\ t.kind = "page" => upper[w] = t.upper
  BY <1>1, <1>2, <1>4 DEF ListFits
<1>13. Bounded(t)' /\ Bounded(a.next)'
  <2>1. Bounded(a.next)
    BY <1>5, <1>6, <1>12 DEF Bounded
  <2>2. \A x : Bounded(x) /\ x.owner \in Owners => Bounded(x)'
    BY <1>8 DEF Bounded, TablesKept
  <2> QED BY <1>2, <1>5, <1>12, <2>1, <2>2
<1>14. PageFits(w)'
  BY <1>4, <1>5, <1>9, <1>10, <1>11, <1>12, <1>13 DEF PageFits
<1>15. ListFits(w)'
  BY <1>2, <1>4, <1>9, <1>13, <1>14 DEF ListFits
<1> QED BY <1>1, <1>2, <1>6, <1>7, <1>8, <1>15, UnderWay, MoveStep DEF PCs

\* What a client takes: its first token, or the page that follows what it has.
Took(w, c) ==
  /\ answer[w] # None /\ answer[w].next \in Tokens
  /\ held' = [held EXCEPT ![c] = answer[w].next]
  /\ \/ /\ held[c] = None /\ got' = got
        /\ start' = [start EXCEPT ![c] = answer[w].next.after]
        /\ answer[w].next \in Checkpoints /\ Bounded(answer[w].next) /\ answer[w].next.owner = OwnerOf[c]
     \/ /\ held[c] = task[w].token /\ held[c] # None /\ start' = start
        /\ got' = [got EXCEPT ![c] = @ \o answer[w].rows]
        /\ PageFits(w) /\ Mine(w) = OwnerOf[c]

LEMMA TakeFacts ==
  ASSUME FInv, NEW w \in Workers, Take(w)
  PROVE  \E c \in Clients : Took(w, c)
<1>1. pc[w] = "reply"
  BY DEF Take
<1>2. PICK c : c = task[w].client
  OBVIOUS
<1>3. c \in Clients /\ Mine(w) = OwnerOf[c]
  BY <1>1, <1>2, UnderWay DEF StartTask, ListTask, Mine
<1>4. CASE Begins(w)
  <2>1. StartFits(w)
    BY <1>1, <1>4, UnderWay DEF Begins, ListFits, PageFits, Refused
  <2>2. /\ answer[w] \in [status: {"token"}, next: Checkpoints]
        /\ answer[w].next.owner = Mine(w) /\ Bounded(answer[w].next)
    BY <1>1, <2>1 DEF StartFits
  <2>3. ~Continues(w)
    BY <1>4 DEF Begins, Continues
  <2>4. answer[w] # None
    BY <2>2, ChangeFeedAssumption DEF Answer
  <2>5. Took(w, c)
    BY <1>2, <1>3, <1>4, <2>2, <2>3, <2>4 DEF Take, Begins, Took, Tokens
  <2> QED BY <1>3, <2>5
<1>5. CASE ~Begins(w)
  <2>1. Continues(w)
    BY <1>5 DEF Take
  <2>2. ListFits(w) /\ PageFits(w)
    BY <1>1, <2>1, UnderWay DEF Continues, StartFits, ListFits, Refused
  <2>3. answer[w] \in [status: {"page"}, next: Tokens, rows: Seq(ChangeRow)]
    BY <2>2 DEF PageFits
  <2>4. answer[w] # None
    BY <2>3, ChangeFeedAssumption DEF Answer
  <2>5. held[c] = task[w].token /\ held[c] # None
    BY <1>2, <2>1, <2>2, ChangeFeedAssumption DEF Continues, ListFits, Bounded
  <2>6. Took(w, c)
    BY <1>2, <1>3, <1>5, <2>2, <2>3, <2>4, <2>5 DEF Take, Took
  <2> QED BY <1>3, <2>6
<1> QED BY <1>4, <1>5

\* The page continues what the client has.
LEMMA TookRun ==
  ASSUME FInv, NEW w \in Workers, NEW c \in Clients, held[c] = task[w].token, held[c] # None,
         PageFits(w), Mine(w) = OwnerOf[c]
  PROVE  LET next == answer[w].next
             all == got[c] \o answer[w].rows
         IN /\ next \in Tokens /\ Bounded(next) /\ next.owner = OwnerOf[c]
            /\ all \in Seq(ChangeRow)
            /\ start[c] + Len(all) = next.after /\ IsRun(all, OwnerOf[c], start[c])
<1>1. PICK o, n : o = OwnerOf[c] /\ n = answer[w].next
  OBVIOUS
<1>2. PICK s, t : s = got[c] /\ t = answer[w].rows
  OBVIOUS
<1>3. /\ s \in Seq(ChangeRow) /\ start[c] \in Nat /\ held[c].after \in Nat
      /\ Bounded(held[c]) /\ start[c] + Len(s) = held[c].after /\ IsRun(s, o, start[c])
  BY <1>1, <1>2 DEF FInv, TypeOK, HeldFits, Bounded, Tokens, Checkpoints, Pages
<1>4. PICK a \in Nat, b \in Nat : a = start[c] /\ b = held[c].after
  BY <1>3
<1>5. /\ n \in Tokens /\ Bounded(n) /\ n.owner = o /\ n.after \in Nat
      /\ t \in Seq(ChangeRow) /\ b <= n.after /\ Len(t) = n.after - b /\ IsRun(t, o, b)
  BY <1>1, <1>2, <1>4 DEF PageFits, Tokens, Checkpoints, Pages
<1>6. a + Len(s) = b /\ IsRun(s, o, a)
  BY <1>3, <1>4
<1>7. s \o t \in Seq(ChangeRow) /\ Len(s \o t) = Len(s) + Len(t) /\ IsRun(s \o t, o, a)
  <2>1. Selected(s \o t, o, a, b + Len(t), Len(s) + Len(t))
    BY <1>3, <1>5, <1>6, JoinedRuns
  <2>2. PICK i \in Nat, k \in Nat : i = Len(s) /\ k = Len(t)
    BY <1>3, <1>5
  <2>3. i + k = IF i + k < (b + k) - a THEN i + k ELSE (b + k) - a
    BY <1>6, <2>2
  <2> QED BY <2>1, <2>2, <2>3 DEF Selected
<1>8. a + Len(s \o t) = n.after
  <2>1. PICK i \in Nat, k \in Nat : i = Len(s) /\ k = Len(t)
    BY <1>3, <1>5
  <2>2. PICK m \in Nat : m = n.after
    BY <1>5
  <2>3. b = a + i /\ k = m - b
    BY <1>5, <1>6, <2>1, <2>2
  <2>4. PICK j : j = Len(s \o t)
    OBVIOUS
  <2>5. j = i + k
    BY <1>7, <2>1, <2>4
  <2>6. a + j = m
    BY <2>3, <2>5
  <2> QED BY <2>2, <2>4, <2>6
<1> QED BY <1>1, <1>2, <1>4, <1>5, <1>7, <1>8

LEMMA TakeStep ==
  ASSUME FInv, NEW w \in Workers, Take(w)
  PROVE  FInv'
<1>1. PICK c \in Clients : Took(w, c)
  BY TakeFacts
<1>2. UNCHANGED <<tables, registering>> /\ Moves(w, "idle", None, 0, None)
  BY DEF Take, Idle, Goto, Moves
<1>3. TablesKept
  BY <1>2 DEF tables, TablesKept, FInv, TypeOK, LogFits, Committed
<1>4. held' \in [Clients -> Tokens \cup {None}]
  BY <1>1 DEF Took, FInv, TypeOK
<1>5. CASE held[c] = None /\ answer[w].next \in Checkpoints /\ got' = got
           /\ start' = [start EXCEPT ![c] = answer[w].next.after]
           /\ Bounded(answer[w].next) /\ answer[w].next.owner = OwnerOf[c]
  <2>0. PICK next : next = answer[w].next
    OBVIOUS
  <2>1. start' \in [Clients -> Nat] /\ got' \in [Clients -> Seq(ChangeRow)]
    BY <1>5 DEF FInv, TypeOK, Checkpoints
  <2>2. TypeOK' /\ changes \subseteq changes' /\ \A y \in Owners : Committed(y) <= Committed(y)'
    BY <1>2, <1>3, <1>4, <2>1, MoveType DEF PCs
  <2>3. got[c] = <<>> /\ Bounded(next)'
    BY <1>5, <2>0, <2>2, GrowFits DEF FInv, HeldFits
  <2>4. held'[c] = next /\ got'[c] = <<>> /\ start'[c] = next.after
    BY <1>1, <1>5, <2>0, <2>3 DEF Took, FInv, TypeOK
  <2>5. next # None /\ next.after \in Nat /\ next.owner = OwnerOf[c]
    BY <1>5, <2>0, ChangeFeedAssumption DEF Tokens, Checkpoints
  <2>6. HeldFits(c)'
    BY <2>3, <2>4, <2>5 DEF HeldFits, IsRun
  <2>7. \A d \in Clients \ {c} : HeldFits(d)'
    BY <1>1, <1>5, <2>2, SameClient DEF Took, FInv, TypeOK
  <2> QED BY <1>2, <1>3, <2>2, <2>6, <2>7, KeptFits, OtherWorker, MoveFacts DEF FInv
<1>6. CASE held[c] = task[w].token /\ held[c] # None /\ start' = start
           /\ got' = [got EXCEPT ![c] = @ \o answer[w].rows]
           /\ PageFits(w) /\ Mine(w) = OwnerOf[c]
  <2>1. PICK next, all : next = answer[w].next /\ all = got[c] \o answer[w].rows
    OBVIOUS
  <2>2. /\ next \in Tokens /\ Bounded(next) /\ next.owner = OwnerOf[c]
        /\ all \in Seq(ChangeRow)
        /\ start[c] + Len(all) = next.after /\ IsRun(all, OwnerOf[c], start[c])
    BY <1>6, <2>1, TookRun
  <2>3. got' = [got EXCEPT ![c] = all]
    BY <1>6, <2>1
  <2>4. start' \in [Clients -> Nat] /\ got' \in [Clients -> Seq(ChangeRow)]
    BY <1>6, <2>2, <2>3 DEF FInv, TypeOK
  <2>5. TypeOK' /\ changes \subseteq changes' /\ \A y \in Owners : Committed(y) <= Committed(y)'
    BY <1>2, <1>3, <1>4, <2>4, MoveType DEF PCs
  <2>6. Bounded(next)' /\ IsRun(all, OwnerOf[c], start[c])'
    <3>1. PICK o, b : o = OwnerOf[c] /\ b = start[c]
      OBVIOUS
    <3>2. IsRun(all, o, b)' /\ Bounded(next)'
      BY <2>2, <2>5, <3>1, GrowFits
    <3> QED BY <1>6, <3>1, <3>2 DEF IsRun
  <2>7. held'[c] = next /\ got'[c] = all /\ start'[c] = start[c] /\ next # None
    BY <1>1, <1>6, <2>1, <2>2, <2>3, ChangeFeedAssumption DEF Took, FInv, TypeOK
  <2>8. HeldFits(c)'
    BY <2>2, <2>6, <2>7 DEF HeldFits, IsRun
  <2>9. \A d \in Clients \ {c} : HeldFits(d)'
    BY <1>1, <1>6, <2>5, SameClient DEF Took, FInv, TypeOK
  <2> QED BY <1>2, <1>3, <2>5, <2>8, <2>9, KeptFits, OtherWorker, MoveFacts DEF FInv
<1> QED BY <1>1, <1>5, <1>6 DEF Took

-----------------------------------------------------------------------------
LEMMA InitFInv == Init => FInv
<1> SUFFICES ASSUME Init PROVE FInv
  OBVIOUS
<1>1. \A o : Committed(o) = 0
  BY DEF Init, Committed
<1>2. TypeOK
  BY ChangeFeedAssumption DEF Init, TypeOK, PCs
<1>3. LogFits
  <2>1. \A o : Run({r \in changes : r.owner = o}, 0, 0)
    BY DEF Init, Run
  <2> QED BY <1>1, <2>1, ChangeFeedAssumption DEF Init, LogFits
<1>4. FilesFit
  BY DEF Init, FilesFit
<1>5. PastFits
  BY <1>1 DEF Init, PastFits
<1>6. \A w \in Workers : pc[w] = "idle"
  BY DEF Init
<1>7. \A c \in Clients : HeldFits(c)
  BY DEF Init, HeldFits
<1> QED BY <1>2, <1>3, <1>4, <1>5, <1>6, <1>7 DEF FInv

LEMMA MutationStep ==
  ASSUME FInv, NEW o \in Owners, NEW f \in FileIds, CreateFile(o, f) \/ ChangeFile(o, f)
  PROVE  FInv'
<1>1. PICK deleted \in BOOLEAN : Publish(o, f, deleted) /\ (f \in DOMAIN files => files[f].owner = o)
  BY DEF CreateFile, ChangeFile
<1>2. /\ TypeOK' /\ LogFits' /\ FilesFit' /\ PastFits'
      /\ changes \subseteq changes' /\ \A y \in Owners : Committed(y) <= Committed(y)'
  BY <1>1, PublishStep
<1>3. UNCHANGED <<pc, task, upper, answer, held, start, got>>
  BY <1>1 DEF Publish, requests, clients
<1>4. \A w \in Workers : pc'[w] # "idle" => StartFits(w)' \/ ListFits(w)'
  BY <1>2, <1>3, OtherWorker
<1>5. \A c \in Clients : HeldFits(c)'
  BY <1>2, <1>3, SameClient
<1> QED BY <1>2, <1>4, <1>5 DEF FInv

LEMMA StepFInv == FInv /\ [Next]_vars => FInv'
<1> SUFFICES ASSUME FInv, [Next]_vars PROVE FInv'
  OBVIOUS
<1>1. CASE Next
  BY <1>1, MutationStep, AskStep, EnsureStep, RevisionStep, BoundsStep, RowsStep, TakeStep, IdleStep
  DEF Next, Statement
<1>2. CASE UNCHANGED vars
  <2>1. UNCHANGED <<revision, changes, files, past, registering, pc, task, upper, answer, held, start, got>>
    BY <1>2 DEF vars, tables, requests, clients
  <2>2. TypeOK' /\ TablesKept
    BY <2>1 DEF FInv, TypeOK, LogFits, TablesKept, Committed
  <2>3. changes \subseteq changes' /\ \A y \in Owners : Committed(y) <= Committed(y)'
    BY <2>1, CommittedType DEF FInv, Committed
  <2>4. \A w \in Workers : pc'[w] # "idle" => StartFits(w)' \/ ListFits(w)'
    BY <2>1, <2>2, <2>3, OtherWorker
  <2>5. \A c \in Clients : HeldFits(c)'
    BY <2>1, <2>2, <2>3, SameClient
  <2> QED BY <2>2, <2>4, <2>5, KeptFits DEF FInv
<1> QED BY <1>1, <1>2

-----------------------------------------------------------------------------
(* Theorems *)

\* In every behaviour the revisions of an account have no gap, its files are what
\* its changes add up to, and requests, tokens and clients are within them.
THEOREM FeedInvariance == Spec => []FInv
BY InitFInv, StepFInv, PTL DEF Spec

\* A page holds exactly the changes between two tokens, in order and of one
\* account, within the bound its chain has fixed, and the server refuses none of
\* its own tokens: listChanges of src/src/cloud-drive-service.js and of
\* src/src/postgres-repository.js, whatever commits in between.
THEOREM PagesCorrect == Spec => []PagesExact
<1>1. ASSUME FInv
      PROVE  PagesExact
  <2>1. TypeOK
    BY <1>1 DEF FInv
  <2>2. ASSUME NEW w \in Workers, pc[w] = "reply", answer[w].status = "page"
        PROVE  LET t == task[w].token
                   next == answer[w].next
               IN /\ t.owner = Mine(w) /\ next.owner = Mine(w)
                  /\ t.after <= next.after /\ next.after <= Committed(Mine(w))
                  /\ Len(answer[w].rows) = next.after - t.after
                  /\ \A i \in 1 .. Len(answer[w].rows) :
                       /\ answer[w].rows[i] \in changes
                       /\ answer[w].rows[i].owner = Mine(w)
                       /\ answer[w].rows[i].revision = t.after + i
                  /\ next.kind = "page" => Len(answer[w].rows) = task[w].limit
                  /\ t.kind = "page" =>
                       t.upper = (IF next.kind = "page" THEN next.upper ELSE next.after)
    <3>1. PageFits(w)
      BY <1>1, <2>2, UnderWay DEF StartFits, ListFits, Refused
    <3>2. PICK next : next = answer[w].next
      OBVIOUS
    <3>3. next \in Tokens /\ next.owner = Mine(w) /\ EndOf(next) <= Committed(Mine(w))
      BY <3>1, <3>2 DEF PageFits, Bounded
    <3>4. Committed(Mine(w)) \in Nat
      BY <1>1, CommittedType DEF FInv
    <3>5. next.after <= Committed(Mine(w))
      BY <3>3, <3>4 DEF Tokens, Checkpoints, Pages, EndOf
    <3> QED BY <3>1, <3>2, <3>5 DEF PageFits, IsRun, EndOf
  <2>3. ASSUME NEW w \in Workers, pc[w] = "reply", answer[w].status = "refused"
        PROVE  task[w].token.owner # Mine(w)
    BY <1>1, <2>3, UnderWay DEF StartFits, ListFits, PageFits
  <2> QED BY <2>1, <2>2, <2>3 DEF PagesExact
<1> QED BY <1>1, FeedInvariance, PTL

\* Applying the changes up to a revision gives what replaying them gives.
LEMMA AppliedIsReplay ==
  ASSUME TypeOK, LogFits, NEW o \in Owners, NEW rows \in Seq(ChangeRow), NEW n \in Nat,
         n = Len(rows), IsRun(rows, o, 0)
  PROVE  Applied(rows) = Replay(o, n)
<1>1. DOMAIN rows = 1 .. n
  OBVIOUS
<1>2. ASSUME NEW i \in 1 .. n
      PROVE  rows[i] \in changes /\ rows[i].owner = o /\ rows[i].revision = i
  BY DEF IsRun
<1>3. ASSUME NEW r \in changes, r.owner = o, r.revision <= n
      PROVE  r.revision \in 1 .. n /\ rows[r.revision] = r
  <2>1. PICK i \in 1 .. n : i = r.revision
    BY <1>3, ChangeFacts, CommittedType
  <2>2. rows[i] \in changes /\ rows[i].owner = o /\ rows[i].revision = r.revision
    BY <1>2, <2>1
  <2>3. rows[i] = r
    BY <1>3, <2>2 DEF LogFits, Run
  <2> QED BY <2>1, <2>3
<1>4. ASSUME NEW i \in 1 .. n
      PROVE  (\A k \in i + 1 .. n : rows[k].file # rows[i].file) <=> Last(rows[i], n)
  <2>1. ASSUME \A k \in i + 1 .. n : rows[k].file # rows[i].file
        PROVE  Last(rows[i], n)
    <3>1. SUFFICES ASSUME NEW q \in changes, q.owner = o, q.file = rows[i].file, q.revision <= n
                   PROVE  q.revision <= i
      BY <1>2 DEF Last
    <3>2. PICK k \in 1 .. n : k = q.revision /\ rows[k] = q
      BY <1>3, <3>1
    <3>3. k \notin i + 1 .. n
      BY <2>1, <3>1, <3>2
    <3> QED BY <3>2, <3>3
  <2>2. ASSUME Last(rows[i], n), NEW k \in i + 1 .. n
        PROVE  rows[k].file # rows[i].file
    <3>1. k \in 1 .. n /\ ~(k <= i) /\ k <= n
      OBVIOUS
    <3>2. rows[k] \in changes /\ rows[k].owner = rows[i].owner /\ rows[k].revision = k /\ rows[i].revision = i
      BY <1>2, <3>1
    <3> QED BY <2>2, <3>1, <3>2 DEF Last
  <2> QED BY <2>1, <2>2
<1>5. ASSUME NEW i \in 1 .. n, rows[i].version > 0, \A k \in i + 1 .. n : rows[k].file # rows[i].file
      PROVE  <<rows[i].file, rows[i].version>> \in Replay(o, n)
  <2>1. PICK r \in changes : r = rows[i] /\ r.owner = o /\ r.revision <= n
    BY <1>2
  <2>2. Last(r, n) /\ r.version > 0
    BY <1>4, <1>5, <2>1
  <2> QED BY <2>1, <2>2 DEF Replay
<1>6. ASSUME NEW r \in changes, r.owner = o, r.revision <= n, r.version > 0, Last(r, n)
      PROVE  \E i \in 1 .. n : /\ rows[i].version > 0 /\ \A k \in i + 1 .. n : rows[k].file # rows[i].file
                               /\ <<r.file, r.version>> = <<rows[i].file, rows[i].version>>
  <2>1. PICK i \in 1 .. n : rows[i] = r
    BY <1>3, <1>6
  <2> QED BY <1>4, <1>6, <2>1
<1>7. Applied(rows) = {<<rows[i].file, rows[i].version>> :
        i \in {j \in 1 .. n : rows[j].version > 0 /\ \A k \in j + 1 .. n : rows[k].file # rows[j].file}}
  BY <1>1 DEF Applied
<1>8. Applied(rows) \subseteq Replay(o, n)
  BY <1>5, <1>7
<1>9. Replay(o, n) \subseteq Applied(rows)
  BY <1>6, <1>7 DEF Replay
<1> QED BY <1>8, <1>9

\* A client that applies what it gets from the beginning has the listing that the
\* account had at the revision of its token.
THEOREM MirrorCorrect == Spec => []MirrorIsListing
<1>1. ASSUME FInv
      PROVE  MirrorIsListing
  <2>1. SUFFICES ASSUME NEW c \in Clients, held[c] # None, start[c] = 0, At(c) > 0
                 PROVE  Applied(got[c]) = past[OwnerOf[c]][At(c)]
    BY DEF MirrorIsListing
  <2>2. PICK o \in Owners : o = OwnerOf[c]
    BY ChangeFeedAssumption
  <2>3. /\ Bounded(held[c]) /\ held[c].owner = o
        /\ 0 + Len(got[c]) = held[c].after /\ IsRun(got[c], o, 0)
        /\ got[c] \in Seq(ChangeRow)
    BY <1>1, <2>1, <2>2 DEF FInv, HeldFits, TypeOK
  <2>4. PICK n \in Nat : n = Len(got[c]) /\ n = At(c) /\ n > 0
    BY <2>1, <2>3 DEF At
  <2>5. n <= Committed(o)
    <3>1. EndOf(held[c]) <= Committed(o) /\ Committed(o) \in Nat /\ held[c] \in Tokens
      BY <1>1, <2>3, CommittedType DEF Bounded, FInv
    <3> QED BY <2>4, <3>1 DEF At, EndOf, Tokens, Checkpoints, Pages
  <2>6. past[o][n] = Replay(o, n)
    BY <1>1, <2>4, <2>5, CommittedType DEF FInv, PastFits
  <2>7. Applied(got[c]) = Replay(o, n)
    BY <1>1, <2>3, <2>4, AppliedIsReplay DEF FInv
  <2> QED BY <2>2, <2>4, <2>6, <2>7
<1> QED BY <1>1, FeedInvariance, PTL

-----------------------------------------------------------------------------
(* The feed implements a log that each client reads in sessions *)

\* The mapped log of an account is all of its changes, and only one sequence is.
IsLog(rows, o) == rows \in Seq(ChangeRow) /\ Len(rows) = Committed(o) /\ IsRun(rows, o, 0)
LogsFit == \A o \in Owners : IsLog(Log[o], o)
OneRun == \A o \in Owners, a \in Nat : \A s, t \in Seq(ChangeRow) :
            IsRun(s, o, a) /\ IsRun(t, o, a) /\ Len(s) = Len(t) => s = t

LEMMA LogsAreRuns == FInv => LogsFit /\ OneRun
<1> SUFFICES ASSUME FInv PROVE LogsFit /\ OneRun
  OBVIOUS
<1>1. ASSUME NEW o \in Owners
      PROVE  IsLog(Log[o], o)
  <2>1. PICK m \in Nat : m = Committed(o) /\ m <= MaxRevision
    BY CommittedType DEF FInv, LogFits
  <2>2. MaxRevision \in Nat
    BY ChangeFeedAssumption
  <2>3. m = IF MaxRevision < m THEN MaxRevision ELSE m
    BY <2>1, <2>2
  <2>4. Selected(Rows(o, 0, MaxRevision), o, 0, m, MaxRevision)
    BY <2>1, <2>2, <2>3, SelectedRows DEF FInv, Rows
  <2>5. m = IF MaxRevision < m - 0 THEN MaxRevision ELSE m - 0
    BY <2>1, <2>2
  <2> QED BY <2>1, <2>4, <2>5 DEF Selected, IsLog, Log
<1>2. OneRun
  BY SameRun DEF OneRun, FInv
<1> QED BY <1>1, <1>2 DEF LogsFit

LEMMA LogsAreRunsNext == FInv /\ [Next]_vars => (LogsFit /\ OneRun)'
BY StepFInv, LogsAreRuns, PTL

\* Without a change there is no step of the log.
LEMMA LogKept ==
  ASSUME changes' = changes
  PROVE  Log' = Log
BY DEF Log, Rows, Select

LEMMA ReadersKept ==
  ASSUME held' = held, start' = start, got' = got
  PROVE  Readers' = Readers
BY DEF Readers, EndOf

\* A mutation appends its change to the log of its account.
LEMMA MutationImplements ==
  ASSUME FInv, [Next]_vars, NEW o \in Owners, NEW f \in FileIds,
         CreateFile(o, f) \/ ChangeFile(o, f)
  PROVE  Stream!Commit(o)
<1>1. PICK deleted \in BOOLEAN : Publish(o, f, deleted)
  BY DEF CreateFile, ChangeFile
<1>2. PICK n \in Nat \ {0}, v \in Nat, x \in ChangeRow : Published(o, f, n, v, x)
  BY <1>1, PublishFacts
<1>3. /\ x = [owner |-> o, revision |-> n, file |-> f, version |-> v] /\ v \in {0, n}
      /\ Committed(o)' = n /\ \A y \in Owners \ {o} : Committed(y)' = Committed(y)
      /\ n = Committed(o) + 1 /\ changes' = changes \cup {x}
      /\ UNCHANGED <<held, start, got>>
  BY <1>2 DEF Published, clients
<1>4. LogsFit /\ LogsFit' /\ OneRun'
  BY LogsAreRuns, LogsAreRunsNext
<1>5. ASSUME NEW y \in Owners
      PROVE  /\ Log[y] \in Seq(ChangeRow) /\ Len(Log[y]) = Committed(y) /\ IsRun(Log[y], y, 0)
             /\ Log'[y] \in Seq(ChangeRow) /\ Len(Log'[y]) = Committed(y)' /\ IsRun(Log[y], y, 0)'
  BY <1>4 DEF LogsFit, IsLog
<1>6. \A y \in Owners, s, t \in Seq(ChangeRow) :
        /\ \A i \in 1 .. Len(s) : s[i] \in changes' /\ s[i].owner = y /\ s[i].revision = 0 + i
        /\ \A i \in 1 .. Len(t) : t[i] \in changes' /\ t[i].owner = y /\ t[i].revision = 0 + i
        /\ Len(s) = Len(t)
        => s = t
  <2>1. SUFFICES ASSUME NEW y \in Owners, NEW s \in Seq(ChangeRow), NEW t \in Seq(ChangeRow),
                        \A i \in 1 .. Len(s) : s[i] \in changes' /\ s[i].owner = y /\ s[i].revision = 0 + i,
                        \A i \in 1 .. Len(t) : t[i] \in changes' /\ t[i].owner = y /\ t[i].revision = 0 + i,
                        Len(s) = Len(t)
                 PROVE  s = t
    OBVIOUS
  <2>2. IsRun(s, y, 0)' /\ IsRun(t, y, 0)'
    BY <2>1 DEF IsRun
  <2>3. 0 \in Nat
    OBVIOUS
  <2> QED BY <1>4, <2>1, <2>2, <2>3 DEF OneRun
<1>7. ASSUME NEW y \in Owners, y # o
      PROVE  Log'[y] = Log[y]
  <2>1. Len(Log'[y]) = Len(Log[y])
    BY <1>3, <1>5, <1>7
  <2>2. \A i \in 1 .. Len(Log[y]) : Log[y][i] \in changes' /\ Log[y][i].owner = y /\ Log[y][i].revision = 0 + i
    BY <1>3, <1>5 DEF IsRun
  <2>3. \A i \in 1 .. Len(Log'[y]) : Log'[y][i] \in changes' /\ Log'[y][i].owner = y /\ Log'[y][i].revision = 0 + i
    BY <1>5 DEF IsRun
  <2> QED BY <1>5, <1>6, <2>1, <2>2, <2>3
<1>8. Log'[o] = Append(Log[o], x)
  <2>1. PICK s, t : s = Log[o] /\ t = Append(s, x)
    OBVIOUS
  <2>2. s \in Seq(ChangeRow) /\ Len(s) + 1 = n /\ IsRun(s, o, 0)
    BY <1>3, <1>5, <2>1
  <2>3. /\ t \in Seq(ChangeRow) /\ Len(t) = n
        /\ \A i \in 1 .. n : t[i] = IF i = n THEN x ELSE s[i]
    BY <2>1, <2>2
  <2>4. ASSUME NEW i \in 1 .. Len(t)
        PROVE  t[i] \in changes' /\ t[i].owner = o /\ t[i].revision = 0 + i
    <3>1. CASE i = n
      BY <1>3, <2>3, <3>1
    <3>2. CASE i # n
      <4>1. i \in 1 .. Len(s) /\ t[i] = s[i]
        BY <2>2, <2>3, <3>2
      <4> QED BY <1>3, <2>2, <4>1 DEF IsRun
    <3> QED BY <3>1, <3>2
  <2>5. \A i \in 1 .. Len(Log'[o]) : Log'[o][i] \in changes' /\ Log'[o][i].owner = o /\ Log'[o][i].revision = 0 + i
    BY <1>5 DEF IsRun
  <2>6. Len(Log'[o]) = Len(t)
    BY <1>3, <1>5, <2>3
  <2> QED BY <1>5, <1>6, <2>1, <2>3, <2>4, <2>5, <2>6
<1>9. Log' = [Log EXCEPT ![o] = Append(@, x)]
  BY <1>7, <1>8 DEF Log
<1>10. Len(Log[o]) + 1 = n
  BY <1>3, <1>5
<1>11. Readers' = Readers
  BY <1>3, ReadersKept
<1> QED BY <1>3, <1>9, <1>10, <1>11 DEF Stream!Commit

\* The rows of a page are the part of the log between its token and the next one.
LEMMA RowsOfLog ==
  ASSUME FInv, NEW o \in Owners, NEW a \in Nat, NEW b \in Nat, NEW rows \in Seq(ChangeRow),
         a <= b, b <= Committed(o), Len(rows) = b - a, IsRun(rows, o, a)
  PROVE  rows = SubSeq(Log[o], a + 1, b)
<1>1. PICK s : s = Log[o]
  OBVIOUS
<1>2. s \in Seq(ChangeRow) /\ Len(s) = Committed(o) /\ IsRun(s, o, 0)
  BY <1>1, LogsAreRuns DEF LogsFit, IsLog
<1>3. PICK m \in Nat : m = Committed(o)
  BY CommittedType DEF FInv
<1>4. PICK k \in Nat : k = a + 1 /\ k >= 1
  OBVIOUS
<1>5. PICK t : t = SubSeq(s, k, b)
  OBVIOUS
<1>6. /\ t \in Seq(ChangeRow) /\ Len(t) = b - a
      /\ \A i \in 1 .. b - a : t[i] = s[a + i]
  BY <1>2, <1>3, <1>4, <1>5
<1>7. ASSUME NEW i \in 1 .. Len(t)
      PROVE  t[i] \in changes /\ t[i].owner = o /\ t[i].revision = a + i
  <2>1. PICK j \in 1 .. m : j = a + i
    BY <1>3, <1>6
  <2>2. s[j] \in changes /\ s[j].owner = o /\ s[j].revision = 0 + j
    BY <1>2, <1>3 DEF IsRun
  <2> QED BY <1>6, <2>1, <2>2
<1>8. IsRun(t, o, a)
  BY <1>7 DEF IsRun
<1>9. rows = t
  BY <1>6, <1>8, SameRun DEF FInv
<1> QED BY <1>1, <1>4, <1>5, <1>9

\* A client begins at a revision of the log, or receives the next part of it.
LEMMA TakeImplements ==
  ASSUME FInv, NEW w \in Workers, Take(w)
  PROVE  \E c \in Clients : Stream!Begin(c) \/ Stream!FirstPage(c) \/ Stream!NextPage(c)
<1>1. PICK c \in Clients : Took(w, c)
  BY TakeFacts
<1>2. PICK o \in Owners : o = OwnerOf[c]
  BY ChangeFeedAssumption
<1>3. PICK next : next = answer[w].next
  OBVIOUS
<1>4. Log' = Log
  BY LogKept DEF Take, tables
<1>5. PICK m \in Nat : m = Len(Log[o]) /\ m = Committed(o)
  BY LogsAreRuns, CommittedType DEF LogsFit, IsLog, FInv
<1>6. next \in Tokens /\ next # None /\ next.after \in Nat /\ held'[c] = next
  BY <1>1, <1>3, ChangeFeedAssumption DEF Took, Tokens, Checkpoints, Pages, FInv, TypeOK
<1>7. CASE held[c] = None /\ next \in Checkpoints /\ Bounded(next) /\ next.owner = o
           /\ got' = got /\ start' = [start EXCEPT ![c] = next.after]
  <2>1. PICK n \in 0 .. m : n = next.after /\ n = EndOf(next)
    BY <1>5, <1>6, <1>7 DEF Bounded, EndOf, Checkpoints
  <2>2. got[c] = <<>>
    BY <1>7 DEF FInv, HeldFits
  <2>3. Readers[c] = None
    BY <1>7 DEF Readers
  <2>4. Readers' = [Readers EXCEPT ![c] = [start |-> n, got |-> <<>>, end |-> n]]
    BY <1>1, <1>3, <1>6, <1>7, <2>1, <2>2 DEF Readers, EndOf, Took, FInv, TypeOK
  <2>5. Stream!Begin(c)
    BY <1>2, <1>4, <1>5, <2>1, <2>3, <2>4 DEF Stream!Begin
  <2> QED BY <2>5
<1>8. CASE held[c] = task[w].token /\ held[c] # None /\ start' = start
           /\ got' = [got EXCEPT ![c] = @ \o answer[w].rows]
           /\ PageFits(w) /\ Mine(w) = o
  <2>1. PICK t, rows : t = held[c] /\ rows = answer[w].rows
    OBVIOUS
  <2>2. PICK a \in Nat, n \in Nat : a = t.after /\ n = next.after
    BY <1>6, <1>8, <2>1 DEF FInv, TypeOK, Tokens, Checkpoints, Pages
  <2>3. PICK e \in Nat : e = EndOf(next)
    BY <1>6 DEF Tokens, Checkpoints, Pages, EndOf
  <2>4. /\ rows \in Seq(ChangeRow) /\ next.owner = o /\ EndOf(next) <= Committed(o)
        /\ a <= n /\ Len(rows) = n - a /\ IsRun(rows, o, a)
        /\ next.kind = "page" => Len(rows) = task[w].limit
        /\ t.kind = "page" => t.upper = e
        /\ t \in Tokens
    BY <1>3, <1>8, <2>1, <2>2, <2>3 DEF PageFits, Bounded, FInv, TypeOK
  <2>5. n <= e /\ e <= m /\ (next.kind = "page" => n < e) /\ (next.kind # "page" => n = e)
    BY <1>5, <1>6, <2>2, <2>3, <2>4 DEF Tokens, Checkpoints, Pages, EndOf
  <2>6. task[w].limit \in Nat /\ task[w].limit >= 1
    <3>1. ListFits(w)
      BY <1>8, UnderWay, ChangeFeedAssumption DEF Take, PageFits, StartFits
    <3>2. task[w].limit \in Limits
      BY <3>1 DEF ListFits, ListTask
    <3>3. Limits \subseteq 1 .. 100
      BY ChangeFeedAssumption DEF MaxPageSize
    <3>4. PICK i \in 1 .. 100 : i = task[w].limit
      BY <3>2, <3>3
    <3> QED BY <3>4
  <2>7. rows = SubSeq(Log[o], a + 1, n)
    BY <1>5, <2>4, <2>5, RowsOfLog
  <2>8. PICK s, b : s = got[c] /\ b = start[c]
    OBVIOUS
  <2>9. b + Len(s) = a
    BY <1>8, <2>1, <2>2, <2>8 DEF FInv, HeldFits
  <2>10. PICK r : r = Readers[c]
    OBVIOUS
  <2>11. r = [start |-> b, got |-> s, end |-> EndOf(t)] /\ r # None
    <3>1. r = [start |-> b, got |-> s, end |-> EndOf(t)]
      BY <1>8, <2>1, <2>8, <2>10 DEF Readers
    <3>2. b \in Nat /\ s \in Seq(ChangeRow) /\ EndOf(t) \in Nat
      BY <2>4, <2>8 DEF FInv, TypeOK, EndOf, Tokens, Checkpoints, Pages
    <3> QED BY <3>1, <3>2, ChangeFeedAssumption
  <2>12. Stream!At(r) = a
    BY <2>9, <2>11 DEF Stream!At
  <2>13. Stream!Deliver(c, n, e)
    <3>1. Readers'[c] = [start |-> b, got |-> s \o rows, end |-> e]
      BY <1>6, <1>8, <2>1, <2>3, <2>8 DEF Readers, EndOf, FInv, TypeOK
    <3>2. \A d \in Clients \ {c} : Readers'[d] = Readers[d]
      BY <1>1, <1>8 DEF Readers, EndOf, Took, FInv, TypeOK
    <3>3. Readers' = [Readers EXCEPT ![c] = [start |-> b, got |-> s \o rows, end |-> e]]
      BY <3>1, <3>2 DEF Readers
    <3>4. [r EXCEPT !.got = @ \o rows, !.end = e] = [start |-> b, got |-> s \o rows, end |-> e]
      <4>1. PICK z, all : z = EndOf(t) /\ all = s \o rows
        OBVIOUS
      <4>2. r = [start |-> b, got |-> s, end |-> z] /\ r.got \o rows = all
        BY <2>11, <4>1
      <4>3. [r EXCEPT !.got = all, !.end = e] = [start |-> b, got |-> all, end |-> e]
        <5>1. PICK x : x = [r EXCEPT !.got = all]
          OBVIOUS
        <5>2. x = [start |-> b, got |-> all, end |-> z]
          BY <4>2, <5>1
        <5>3. [x EXCEPT !.end = e] = [start |-> b, got |-> all, end |-> e]
          BY <5>2
        <5> QED BY <5>1, <5>3
      <4> QED BY <4>1, <4>2, <4>3
    <3> QED BY <1>2, <1>4, <2>7, <2>10, <2>12, <3>3, <3>4, ZenonT(30) DEF Stream!Deliver
  <2>14. CASE t.kind = "page"
    <3>1. a < e /\ e = EndOf(t)
      BY <2>2, <2>4, <2>14 DEF Tokens, Checkpoints, Pages, EndOf
    <3>2. n \in a + 1 .. e
      BY <2>4, <2>5, <2>6, <3>1
    <3>3. Stream!NextPage(c)
      BY <2>10, <2>11, <2>12, <2>13, <3>1, <3>2 DEF Stream!NextPage
    <3> QED BY <3>3
  <2>15. CASE t.kind # "page"
    <3>1. EndOf(t) = a
      BY <2>2, <2>15 DEF EndOf
    <3>2. e \in a .. m /\ n \in a .. e
      BY <2>4, <2>5
    <3>3. Stream!FirstPage(c)
      BY <1>2, <1>5, <2>10, <2>11, <2>12, <2>13, <3>1, <3>2 DEF Stream!FirstPage
    <3> QED BY <3>3
  <2> QED BY <2>14, <2>15
<1> QED BY <1>1, <1>2, <1>3, <1>7, <1>8 DEF Took

\* Every other step is unseen.
LEMMA OthersStutter ==
  ASSUME NEW w \in Workers,
         \/ \E c \in Clients : Ask(w, c)
         \/ EnsureAccount(w) \/ ReadRevision(w) \/ ReadBounds(w) \/ ReadRows(w)
         \/ Ignore(w) \/ Fail(w)
  PROVE  UNCHANGED <<Log, Readers>>
<1>1. UNCHANGED <<changes, held, start, got>>
  BY DEF Ask, AskStart, RefuseToken, AskFromCheckpoint, AskPage, EnsureAccount, ReadRevision,
         ReadBounds, ReadRows, Ignore, Fail, tables, clients
<1> QED BY <1>1, LogKept, ReadersKept

LEMMA FeedStepImplements ==
  FInv /\ [Next]_vars => [Stream!Next]_<<Log, Readers>>
<1> SUFFICES ASSUME FInv, [Next]_vars
             PROVE  Stream!Next \/ UNCHANGED <<Log, Readers>>
  OBVIOUS
<1>1. ASSUME NEW o \in Owners, NEW f \in FileIds, CreateFile(o, f) \/ ChangeFile(o, f)
      PROVE  Stream!Next
  BY <1>1, MutationImplements DEF Stream!Next
<1>2. ASSUME NEW w \in Workers, Take(w)
      PROVE  Stream!Next
  BY <1>2, TakeImplements DEF Stream!Next
<1>3. CASE UNCHANGED vars
  BY <1>3, LogKept, ReadersKept DEF vars, tables, clients
<1> QED BY <1>1, <1>2, <1>3, OthersStutter DEF Next, Statement

LEMMA FeedInitImplements == Init => Stream!Init
<1> SUFFICES ASSUME Init
             PROVE  Stream!Init
  OBVIOUS
<1>1. ASSUME NEW o \in Owners
      PROVE  Log[o] = <<>>
  <2>1. Log[o] \in Seq(ChangeRow) /\ Len(Log[o]) = Committed(o)
    BY InitFInv, LogsAreRuns DEF LogsFit, IsLog
  <2>2. Committed(o) = 0
    BY DEF Init, Committed
  <2> QED BY <2>1, <2>2
<1>2. Log = [o \in Owners |-> <<>>]
  BY <1>1 DEF Log
<1>3. Readers = [c \in Clients |-> None]
  BY DEF Init, Readers
<1> QED BY <1>2, <1>3 DEF Stream!Init

\* A client that follows the feed reads the account's log from its start, each
\* change once, in sessions whose end is fixed by their first page.
THEOREM FeedImplementation == Spec => ImplementsChangeStream
<1>1. FInv /\ [Next]_vars => [Stream!Next]_<<Log, Readers>>
  BY FeedStepImplements
<1> QED BY <1>1, FeedInvariance, FeedInitImplements, PTL
        DEF Spec, ImplementsChangeStream, Stream!Spec
=============================================================================
