------------------------------ MODULE ChangeFeed ------------------------------
(***************************************************************************)
(* The change feed: createStartToken and listChanges of                    *)
(* src/src/cloud-drive-service.js with the tokens of cursor-codec.js, over *)
(* currentRevision and listChanges of postgres-repository.js, while        *)
(* mutations commit.                                                       *)
(*                                                                         *)
(* A token is a record: the HMAC lets nobody but the server build one.     *)
(* A page is read in up to two transactions, whose statements see what was *)
(* committed when each of them ran.  A mutation is seen by them only when  *)
(* it commits, so it is one step here; Namespace has its statements.       *)
(***************************************************************************)
EXTENDS Naturals, Sequences, FiniteSets

CONSTANTS
  Workers,      \* requests the server may run at the same time
  Owners, FileIds,
  Clients,      \* devices that follow the feed of an account
  OwnerOf,      \* the account of each client
  Limits,       \* page sizes that clients ask for
  Spare,        \* tokens that clients may send without holding them
  MaxRevision,  \* bound on the mutations of an account
  Nobody,       \* no worker
  None          \* no request, answer or token

MaxPageSize == 100

-----------------------------------------------------------------------------
(* Values *)

Checkpoint(o, a) == [kind |-> "checkpoint", owner |-> o, after |-> a]
Page(o, a, u) == [kind |-> "page", owner |-> o, after |-> a, upper |-> u]
Checkpoints == [kind: {"checkpoint"}, owner: Owners, after: Nat]
Pages == {t \in [kind: {"page"}, owner: Owners, after: Nat, upper: Nat] : t.after < t.upper}
Tokens == Checkpoints \cup Pages

\* A version is named by the revision that created it; 0 is SQL NULL, a deletion.
ChangeRow == [owner: Owners, revision: Nat \ {0}, file: FileIds, version: Nat]

StartTask == [kind: {"start"}, client: Clients, position: {"beginning", "now"}]
ListTask == [kind: {"list"}, client: Clients, token: Tokens, limit: Limits]

Answer ==
  [status: {"token"}, next: Checkpoints]
    \cup [status: {"page"}, next: Tokens, rows: Seq(ChangeRow)]
    \cup [status: {"refused"}]

PCs == {"idle", "account", "revision", "page_account", "bounds", "rows", "reply"}

ASSUME ChangeFeedAssumption ==
  /\ OwnerOf \in [Clients -> Owners]
  /\ Limits \subseteq 1 .. MaxPageSize
  /\ Spare \subseteq Tokens
  /\ MaxRevision \in Nat
  /\ Nobody \notin Workers
  /\ None \notin StartTask \cup ListTask \cup Answer \cup Tokens
  /\ None \notin [start: Nat, got: Seq(ChangeRow), end: Nat]

-----------------------------------------------------------------------------
VARIABLES
  revision,     \* accounts: committed_revision of each committed row
  changes,      \* account_changes
  files,        \* files: owner and current version of each, 0 when tombstoned
  past,         \* history: the listing of an account after each revision
  registering,  \* which transaction has inserted an account, uncommitted
  pc, task, upper, answer,  \* each request's progress and local variables
  held,         \* the token a client will send next
  start, got    \* history: where a client began, and all it was given since

tables   == <<revision, changes, files, past>>
requests == <<pc, task, upper, answer>>
clients  == <<held, start, got>>
vars     == <<tables, registering, requests, clients>>

TypeOK ==
  /\ DOMAIN revision \subseteq Owners /\ revision \in [DOMAIN revision -> Nat]
  /\ changes \subseteq ChangeRow
  /\ DOMAIN files \subseteq FileIds
  /\ files \in [DOMAIN files -> [owner: Owners, version: Nat]]
  /\ past \in [Owners -> Seq(SUBSET (FileIds \X Nat))]
  /\ registering \in [Owners -> Workers \cup {Nobody}]
  /\ pc \in [Workers -> PCs]
  /\ task \in [Workers -> StartTask \cup ListTask \cup {None}]
  /\ upper \in [Workers -> Nat]
  /\ answer \in [Workers -> Answer \cup {None}]
  /\ held \in [Clients -> Tokens \cup {None}]
  /\ start \in [Clients -> Nat]
  /\ got \in [Clients -> Seq(ChangeRow)]

Init ==
  /\ revision = [o \in {} |-> 0]
  /\ changes = {}
  /\ files = [f \in {} |-> None]
  /\ past = [o \in Owners |-> <<>>]
  /\ registering = [o \in Owners |-> Nobody]
  /\ pc = [w \in Workers |-> "idle"]
  /\ task = [w \in Workers |-> None]
  /\ upper = [w \in Workers |-> 0]
  /\ answer = [w \in Workers |-> None]
  /\ held = [c \in Clients |-> None]
  /\ start = [c \in Clients |-> 0]
  /\ got = [c \in Clients |-> <<>>]

-----------------------------------------------------------------------------
(* Mutations, as the feed sees them *)

Put(table, id, row) == [x \in DOMAIN table \cup {id} |-> IF x = id THEN row ELSE table[x]]
Committed(o) == IF o \in DOMAIN revision THEN revision[o] ELSE 0

\* The files a reader of the account would find, with their versions.
Listing(o, table) ==
  {<<f, table[f].version>> : f \in {g \in DOMAIN table : table[g].owner = o /\ table[g].version > 0}}

\* The COMMIT of a mutation: file, account row and change row appear at once.
Publish(o, f, deleted) ==
  LET n == Committed(o) + 1
      v == IF deleted THEN 0 ELSE n
      new == Put(files, f, [owner |-> o, version |-> v])
  IN /\ n <= MaxRevision
     /\ registering[o] = Nobody
     /\ revision' = Put(revision, o, n)
     /\ changes' = changes \cup {[owner |-> o, revision |-> n, file |-> f, version |-> v]}
     /\ files' = new
     /\ past' = [past EXCEPT ![o] = Append(@, Listing(o, new))]
     /\ UNCHANGED <<registering, requests, clients>>

CreateFile(o, f) == f \notin DOMAIN files /\ Publish(o, f, FALSE)

ChangeFile(o, f) ==
  /\ f \in DOMAIN files
  /\ files[f].owner = o /\ files[f].version > 0
  /\ \E deleted \in BOOLEAN : Publish(o, f, deleted)

-----------------------------------------------------------------------------
(* Requests *)

Mine(w) == OwnerOf[task[w].client]
Goto(w, label) == pc' = [pc EXCEPT ![w] = label]
FreedBy(w) == [o \in Owners |-> IF registering[o] = w THEN Nobody ELSE registering[o]]

\* COMMIT makes the account row of the transaction visible, ROLLBACK drops it.
Commit(w) ==
  /\ revision' = IF registering[Mine(w)] = w THEN Put(revision, Mine(w), 0) ELSE revision
  /\ registering' = FreedBy(w)
Rollback(w) == registering' = FreedBy(w) /\ UNCHANGED revision

Reply(w, a) == answer' = [answer EXCEPT ![w] = a] /\ Goto(w, "reply")
Refused == [status |-> "refused"]

AskStart(w, c, position) ==
  /\ pc[w] = "idle" /\ held[c] = None
  /\ task' = [task EXCEPT ![w] = [kind |-> "start", client |-> c, position |-> position]]
  /\ Goto(w, "account")
  /\ UNCHANGED <<tables, registering, upper, answer, clients>>

\* The server has been able to seal a token once the account was at its bound.
Issued(t) ==
  /\ t.owner \in DOMAIN revision
  /\ (IF t.kind = "page" THEN t.upper ELSE t.after) <= revision[t.owner]

Receive(w, c, t, n) ==
  /\ pc[w] = "idle"
  /\ t = held[c] \/ (t \in Spare /\ Issued(t))
  /\ task' = [task EXCEPT ![w] = [kind |-> "list", client |-> c, token |-> t, limit |-> n]]

\* Mutant: the owner in the token is not compared.
DecodesAny(c, t) == TRUE

\* decode: a token is bound to the account it was sealed for.
Decodes(c, t) == t.owner = OwnerOf[c]

RefuseToken(w, c, t, n) ==
  /\ Receive(w, c, t, n)
  /\ ~Decodes(c, t)
  /\ Reply(w, Refused)
  /\ UNCHANGED <<tables, registering, upper, clients>>

\* A checkpoint takes the current revision as its upper bound,
AskFromCheckpoint(w, c, t, n) ==
  /\ Receive(w, c, t, n)
  /\ Decodes(c, t) /\ t.kind = "checkpoint"
  /\ Goto(w, "account")
  /\ UNCHANGED <<tables, registering, upper, answer, clients>>

\* Mutant: every page takes the current revision as its upper bound.
AskUnfrozenPage(w, c, t, n) ==
  /\ Receive(w, c, t, n)
  /\ Decodes(c, t) /\ t.kind = "page"
  /\ Goto(w, "account")
  /\ UNCHANGED <<tables, registering, upper, answer, clients>>

\* and a page keeps the bound in its token.
AskPage(w, c, t, n) ==
  /\ Receive(w, c, t, n)
  /\ Decodes(c, t) /\ t.kind = "page"
  /\ upper' = [upper EXCEPT ![w] = t.upper]
  /\ Goto(w, "page_account")
  /\ UNCHANGED <<tables, registering, answer, clients>>

\* INSERT INTO accounts ... ON CONFLICT DO NOTHING, at the begin of both
\* transactions; it waits for a transaction that is inserting the same row.
EnsureAccount(w) ==
  /\ pc[w] \in {"account", "page_account"}
  /\ registering[Mine(w)] = Nobody
  /\ registering' = IF Mine(w) \in DOMAIN revision THEN registering
                    ELSE [registering EXCEPT ![Mine(w)] = w]
  /\ Goto(w, IF pc[w] = "account" THEN "revision" ELSE "bounds")
  /\ UNCHANGED <<tables, task, upper, answer, clients>>

\* Mutant: a checkpoint one before the revision that was read.
CheckpointBefore(o, n) == Checkpoint(o, n - 1)

Sealed(o, n) == Checkpoint(o, n)

\* currentRevision: SELECT committed_revision and COMMIT.
ReadRevision(w) ==
  /\ pc[w] = "revision"
  /\ Commit(w)
  /\ IF task[w].kind = "start"
       THEN /\ Reply(w, [status |-> "token",
                         next |-> Sealed(Mine(w), IF task[w].position = "beginning" THEN 0
                                                  ELSE Committed(Mine(w)))])
            /\ UNCHANGED upper
       ELSE /\ upper' = [upper EXCEPT ![w] = Committed(Mine(w))]
            /\ Goto(w, "page_account")
            /\ UNCHANGED answer
  /\ UNCHANGED <<changes, files, past, task, clients>>

\* Mutant: the bound has to be below the revision.
BelowRevision(w) == task[w].token.after <= upper[w] /\ upper[w] < Committed(Mine(w))

InBounds(w) == task[w].token.after <= upper[w] /\ upper[w] <= Committed(Mine(w))

\* listChanges of the repository reads the revision again, and refuses a bound
\* beyond it.
ReadBounds(w) ==
  /\ pc[w] = "bounds"
  /\ IF InBounds(w)
       THEN Goto(w, "rows") /\ UNCHANGED <<registering, answer>>
       ELSE Reply(w, Refused) /\ registering' = FreedBy(w)
  /\ UNCHANGED <<tables, task, upper, clients>>

\* ORDER BY revision LIMIT n.
FirstRows(rows, n) ==
  [i \in 1 .. (IF n < Cardinality(rows) THEN n ELSE Cardinality(rows)) |->
     CHOOSE r \in rows : Cardinality({q \in rows : q.revision < r.revision}) = i - 1]

\* Mutant: the upper bound is not part of the query.
SelectUnbounded(o, a, u) == {r \in changes : r.owner = o /\ r.revision > a}

Select(o, a, u) == {r \in changes : r.owner = o /\ r.revision > a /\ r.revision <= u}

\* Mutant: a full page is always followed by another one.
FullPage(rows, n) == Len(rows) >= n

\* limit + 1 rows are read to learn whether there is another page.
HasMore(rows, n) == Len(rows) > n

NextPage(o, b, u) == Page(o, b, u)

\* Mutant: the last page returns the revision that is current by now.
CheckpointNow(o, u) == Checkpoint(o, Committed(o))

FinalCheckpoint(o, u) == Checkpoint(o, u)

\* The answer of listChanges in the service: the rows up to the limit and a
\* token, which the codec refuses to seal when it would promise an empty page.
PageOf(w, fetched) ==
  LET t == task[w].token
      n == task[w].limit
      rows == SubSeq(fetched, 1, IF Len(fetched) < n THEN Len(fetched) ELSE n)
      last == IF rows = <<>> THEN t.after ELSE rows[Len(rows)].revision
  IN IF ~HasMore(fetched, n)
       THEN [status |-> "page", rows |-> rows, next |-> FinalCheckpoint(Mine(w), upper[w])]
     ELSE IF last < upper[w]
       THEN [status |-> "page", rows |-> rows, next |-> NextPage(Mine(w), last, upper[w])]
     ELSE Refused

ReadRows(w) ==
  /\ pc[w] = "rows"
  /\ Commit(w)
  /\ Reply(w, PageOf(w, FirstRows(Select(Mine(w), task[w].token.after, upper[w]),
                                  task[w].limit + 1)))
  /\ UNCHANGED <<changes, files, past, task, upper, clients>>

-----------------------------------------------------------------------------
(* Answers and failures *)

Idle(w) ==
  /\ Goto(w, "idle")
  /\ task' = [task EXCEPT ![w] = None]
  /\ upper' = [upper EXCEPT ![w] = 0]
  /\ answer' = [answer EXCEPT ![w] = None]

\* A client begins with the first token it is given,
Begins(w) ==
  /\ answer[w].status = "token"
  /\ held[task[w].client] = None
\* and goes on with the first answer to the token it holds.
Continues(w) ==
  /\ answer[w].status = "page"
  /\ held[task[w].client] = task[w].token

Take(w) ==
  /\ pc[w] = "reply"
  /\ LET c == task[w].client
     IN \/ /\ Begins(w)
           /\ start' = [start EXCEPT ![c] = answer[w].next.after]
           /\ held' = [held EXCEPT ![c] = answer[w].next]
           /\ UNCHANGED got
        \/ /\ Continues(w)
           /\ got' = [got EXCEPT ![c] = @ \o answer[w].rows]
           /\ held' = [held EXCEPT ![c] = answer[w].next]
           /\ UNCHANGED start
  /\ Idle(w)
  /\ UNCHANGED <<tables, registering>>

\* Errors, and answers that come late or twice, change nothing at the client.
Ignore(w) ==
  /\ pc[w] = "reply"
  /\ ~Begins(w) /\ ~Continues(w)
  /\ Idle(w)
  /\ UNCHANGED <<tables, registering, clients>>

\* A failing query, the death of the process, or a lost response.
Fail(w) ==
  /\ pc[w] # "idle"
  /\ Rollback(w)
  /\ Idle(w)
  /\ UNCHANGED <<changes, files, past, clients>>

-----------------------------------------------------------------------------
Statement(w) ==
  \/ ReadRevision(w) \/ ReadBounds(w) \/ ReadRows(w) \/ Take(w) \/ Ignore(w)

Ask(w, c) ==
  \/ \E position \in {"beginning", "now"} : AskStart(w, c, position)
  \/ \E t \in (Spare \cup {held[c]}) \ {None}, n \in Limits :
       RefuseToken(w, c, t, n) \/ AskFromCheckpoint(w, c, t, n) \/ AskPage(w, c, t, n)

Next ==
  \/ \E o \in Owners, f \in FileIds : CreateFile(o, f) \/ ChangeFile(o, f)
  \/ \E w \in Workers :
       \/ \E c \in Clients : Ask(w, c)
       \/ EnsureAccount(w)
       \/ Statement(w)
       \/ Fail(w)

Spec == Init /\ [][Next]_vars

\* A request's statements are executed as long as the server runs, and
\* PostgreSQL wakes a waiting INSERT in turn.
Fairness == \A w \in Workers : SF_vars(EnsureAccount(w)) /\ WF_vars(Statement(w))
FairSpec == Spec /\ Fairness

\* A client that keeps asking with the token it holds, and failures that do not
\* hit every such request at the same step.
Asking(w, c) ==
  task[w] # None /\ task[w].kind = "list" /\ task[w].client = c /\ task[w].token = held[c]

Persistence ==
  \A c \in Clients :
    /\ SF_vars(\E w \in Workers, n \in Limits, t \in {held[c]} \ {None} :
                 AskFromCheckpoint(w, c, t, n) \/ AskPage(w, c, t, n))
    /\ \A w \in Workers :
         /\ SF_vars(Asking(w, c) /\ ReadRevision(w))
         /\ SF_vars(Asking(w, c) /\ ReadBounds(w))
         /\ SF_vars(Asking(w, c) /\ ReadRows(w))
         /\ SF_vars(Asking(w, c) /\ pc[w] = "account" /\ EnsureAccount(w))
         /\ SF_vars(Asking(w, c) /\ pc[w] = "page_account" /\ EnsureAccount(w))
         /\ SF_vars(Asking(w, c) /\ Take(w))
FollowSpec == FairSpec /\ Persistence

-----------------------------------------------------------------------------
(* What the feed guarantees *)

At(c) == held[c].after
Rows(o, a, u) == FirstRows(Select(o, a, u), MaxRevision)

\* A page holds the changes between its token and the next one: all of them,
\* in order, none of another account and none beyond the bound that the first
\* page of the chain has fixed, whatever commits while the chain is read.
\* A token that the server has sealed for a client is never refused to it.
PagesExact ==
  /\ TypeOK
  /\ \A w \in Workers :
       pc[w] = "reply" /\ answer[w].status = "page" =>
         LET t == task[w].token
             next == answer[w].next
         IN /\ t.owner = Mine(w) /\ next.owner = Mine(w)
            /\ t.after <= next.after /\ next.after <= Committed(Mine(w))
            /\ Len(answer[w].rows) = next.after - t.after
            /\ \A i \in 1 .. Len(answer[w].rows) :
                 /\ answer[w].rows[i] \in changes
                 /\ answer[w].rows[i].owner = Mine(w)
                 /\ answer[w].rows[i].revision = t.after + i
            /\ next.kind = "page" => Len(answer[w].rows) = task[w].limit
            /\ t.kind = "page" =>
                 t.upper = (IF next.kind = "page" THEN next.upper ELSE next.after)
  /\ \A w \in Workers :
       pc[w] = "reply" /\ answer[w].status = "refused" => task[w].token.owner # Mine(w)

\* A client that began at the beginning and applies what it gets has, at every
\* position, the listing that the account had at this revision.
Applied(rows) ==
  {<<rows[i].file, rows[i].version>> :
     i \in {j \in DOMAIN rows :
              /\ rows[j].version > 0
              /\ \A k \in j + 1 .. Len(rows) : rows[k].file # rows[j].file}}

MirrorIsListing ==
  \A c \in Clients :
    held[c] # None /\ start[c] = 0 /\ At(c) > 0 =>
      Applied(got[c]) = past[OwnerOf[c]][At(c)]

\* A client that keeps asking gets every change, while others keep committing.
EveryChangeDelivered ==
  \A c \in Clients, n \in 1 .. MaxRevision :
    held[c] # None /\ Committed(OwnerOf[c]) >= n ~> held[c] # None /\ At(c) >= n

\* The accounts' changes in order, and what each client has of them.
Log == [o \in Owners |-> Rows(o, 0, MaxRevision)]
EndOf(t) == IF t.kind = "page" THEN t.upper ELSE t.after
Readers ==
  [c \in Clients |-> IF held[c] = None THEN None
                     ELSE [start |-> start[c], got |-> got[c], end |-> EndOf(held[c])]]
Stream == INSTANCE ChangeStream WITH log <- Log, reader <- Readers

\* A client that follows the feed reads the account's log from its start, each
\* change once, in sessions whose end is fixed by their first page.
ImplementsChangeStream == Stream!Spec
=============================================================================
