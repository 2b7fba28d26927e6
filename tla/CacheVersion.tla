---------------------------- MODULE CacheVersion ----------------------------
(***************************************************************************)
(* The cache of the pages of one program.  The key of a page, which is its   *)
(* ETag too, holds the version of the program; the version lives in Redis,   *)
(* counts up with every write and expires.                                   *)
(***************************************************************************)
EXTENDS Naturals

CONSTANTS
  Clients, Writers,
  Overlap,             \* requests and writes run at the same time
  Silent,              \* bulk_update, which sends no signal, is in use
  PageTTL,             \* ticks a page is kept (10 s)
  VersionTTL, SetTTL,  \* ticks a version is kept: as first read, as set by a write
  MaxWrites, MaxNow    \* bounds

CacheAssumption ==
  /\ {Overlap, Silent} \subseteq BOOLEAN
  /\ {PageTTL, VersionTTL, SetTTL} \subseteq Nat \ {0} /\ {MaxWrites, MaxNow} \subseteq Nat

None == [etag |-> 0, data |-> 0]
Idle == [at |-> "idle"]
Missing == [value |-> 0, left |-> 0]

VARIABLES
  data,     \* what is committed, as a count of commits
  version,  \* the version of the program: [value, left]
  pages,    \* the pages by the version in their keys: [data, asOf, left]
  client,   \* the page a client holds and its ETag
  req, writer,
  writes, now

vars == <<data, version, pages, client, req, writer, writes, now>>

Init ==
  /\ data = 0 /\ version = Missing /\ pages = <<>>
  /\ client = [c \in Clients |-> None]
  /\ req = [c \in Clients |-> Idle] /\ writer = [w \in Writers |-> Idle]
  /\ writes = 0 /\ now = 0

-----------------------------------------------------------------------------
(* get_cache_version *)
Read == IF version = Missing THEN [value |-> 1, left |-> VersionTTL] ELSE version

(* incr keeps the expiry there is; without a version it becomes 2. *)
Counted ==
  IF version = Missing THEN [value |-> 2, left |-> SetTTL] ELSE [version EXCEPT !.value = @ + 1]

(* FetchFromCacheMiddleware: the ETag matches, or there is a page ... *)
NotModified(c) ==
  /\ req[c] = Idle /\ client[c].etag = Read.value
  /\ version' = Read
  /\ UNCHANGED <<data, pages, client, req, writer, writes, now>>

FromCache(c) ==
  /\ req[c] = Idle /\ Read.value \in DOMAIN pages
  /\ version' = Read
  /\ client' = [client EXCEPT ![c] = [etag |-> Read.value, data |-> pages[Read.value].data]]
  /\ UNCHANGED <<data, pages, req, writer, writes, now>>

Quiet == \A w \in Writers : writer[w] = Idle

(* ... or the view renders one, *)
Render(c) ==
  /\ req[c] = Idle /\ Read.value \notin DOMAIN pages
  /\ Overlap \/ Quiet
  /\ version' = Read
  /\ req' = [req EXCEPT ![c] = [at |-> "rendered", data |-> data, asOf |-> now]]
  /\ UNCHANGED <<data, pages, client, writer, writes, now>>

(* which UpdateCacheMiddleware stores under the version there is then. *)
Respond(c) ==
  /\ req[c] # Idle
  /\ version' = Read
  /\ pages' = [v \in DOMAIN pages \cup {Read.value} |->
       IF v = Read.value THEN [data |-> req[c].data, asOf |-> req[c].asOf, left |-> PageTTL] ELSE pages[v]]
  /\ client' = [client EXCEPT ![c] = [etag |-> Read.value, data |-> req[c].data]]
  /\ req' = [req EXCEPT ![c] = Idle]
  /\ UNCHANGED <<data, writer, writes, now>>

(* The answer to a POST, or one with messages, drops the page of the form. *)
Invalidate(c) ==
  /\ req[c] = Idle
  /\ version' = Read
  /\ pages' = [v \in DOMAIN pages \ {Read.value} |-> pages[v]]
  /\ UNCHANGED <<data, client, req, writer, writes, now>>

-----------------------------------------------------------------------------
MayWrite(w) ==
  /\ writer[w] = Idle /\ writes < MaxWrites
  /\ Overlap \/ \A c \in Clients : req[c] = Idle

(* post_save counts inside the transaction of the request, *)
Save(w) ==
  /\ MayWrite(w)
  /\ version' = Counted
  /\ writer' = [writer EXCEPT ![w] = [at |-> "saved"]]
  /\ writes' = writes + 1
  /\ UNCHANGED <<data, pages, client, req, now>>

Commit(w) ==
  /\ writer[w].at = "saved"
  /\ data' = data + 1
  /\ writer' = [writer EXCEPT ![w] = Idle]
  /\ UNCHANGED <<version, pages, client, req, writes, now>>

Rollback(w) ==
  /\ writer[w].at = "saved"
  /\ writer' = [writer EXCEPT ![w] = Idle]
  /\ UNCHANGED <<data, version, pages, client, req, writes, now>>

(* jobs under suppress_cache_updates count once, at the end, *)
Bulk(w) ==
  /\ MayWrite(w)
  /\ data' = data + 1 /\ writes' = writes + 1
  /\ writer' = [writer EXCEPT ![w] = [at |-> "written"]]
  /\ UNCHANGED <<version, pages, client, req, now>>

\* Mutant of Count: the version is read again, not counted.
CountNot(w) ==
  /\ writer[w].at = "written"
  /\ version' = Read
  /\ writer' = [writer EXCEPT ![w] = Idle]
  /\ UNCHANGED <<data, pages, client, req, writes, now>>

Count(w) ==
  /\ writer[w].at = "written"
  /\ version' = Counted
  /\ writer' = [writer EXCEPT ![w] = Idle]
  /\ UNCHANGED <<data, pages, client, req, writes, now>>

(* and the cleaners that use bulk_update, as a worker that dies, do not count. *)
Uncounted(w) ==
  /\ Silent /\ writer[w].at = "written"
  /\ writer' = [writer EXCEPT ![w] = Idle]
  /\ UNCHANGED <<data, version, pages, client, req, writes, now>>

(* Redis drops what expired; a request ends before the second tick. *)
Tick ==
  /\ now < MaxNow /\ \A c \in Clients : req[c] # Idle => req[c].asOf = now
  /\ now' = now + 1
  /\ version' = IF version.left <= 1 THEN Missing ELSE [version EXCEPT !.left = @ - 1]
  /\ pages' = [v \in {u \in DOMAIN pages : pages[u].left > 1} |-> [pages[v] EXCEPT !.left = @ - 1]]
  /\ UNCHANGED <<data, client, req, writer, writes>>

Request(c) ==
  \/ NotModified(c) \/ FromCache(c)
  \/ Render(c) \/ Respond(c) \/ Invalidate(c)

Write(w) ==
  \/ Save(w) \/ Commit(w) \/ Rollback(w)
  \/ Bulk(w) \/ Count(w) \/ Uncounted(w)

Next == (\E c \in Clients : Request(c)) \/ (\E w \in Writers : Write(w)) \/ Tick

Spec == Init /\ [][Next]_vars

-----------------------------------------------------------------------------
(* Properties *)

(* The type invariant; every write counts once at most, so that no version  *)
(* is above their number, and no page shows what is not committed.           *)
TypeOK ==
  /\ data \in 0..writes /\ writes \in 0..MaxWrites /\ now \in 0..MaxNow
  /\ version.value \in 0..(writes + 1)
  /\ \A v \in DOMAIN pages : v \in 1..(writes + 1) /\ pages[v].left > 0 /\ pages[v].data <= data
  /\ \A c \in Clients : client[c].data <= data

(* tests/cache/test_cache_base.py: after a save the ETag of a page no longer *)
(* matches.  While nothing is being written, a client whose ETag matches the *)
(* current version, which is answered 304, holds the current data.           *)
EtagTells ==
  Quiet => \A c \in Clients : client[c].etag = Read.value => client[c].data = data

(* A page never shows data older than its lifetime and the request that      *)
(* rendered it, whatever writes ran meanwhile and whether they counted.      *)
PagesAreYoung == \A v \in DOMAIN pages : now <= pages[v].asOf + PageTTL + 1

(* PagesAreYoung is inductive with this: what is left of the life of a page *)
(* is counted from its request, which ended before the second tick.          *)
YoungInv ==
  /\ data \in Nat /\ now \in Nat
  /\ req \in [Clients -> {Idle} \cup [at : {"rendered"}, data : Nat, asOf : Nat]]
  /\ \A c \in Clients : req[c] # Idle => now <= req[c].asOf + 1
  /\ \A v \in DOMAIN pages : pages[v] \in [data : Nat, asOf : Nat, left : Nat \ {0}]
       /\ now + pages[v].left <= pages[v].asOf + PageTTL + 1

At(step) == \E w \in Writers : writer[w].at = step

(* Nobody has a page of the present version. *)
Unseen == Read.value \notin DOMAIN pages /\ \A c \in Clients : client[c].etag # Read.value

(* While every write is counted and no version expires, EtagTells is          *)
(* inductive with this: who has the present version has the present data, or *)
(* will be outdated by the count that is still to come.                       *)
CalmInv ==
  /\ data \in Nat /\ now \in 0..MaxNow
  /\ version # Missing => version \in [value : Nat \ {0}, left : Nat] /\ version.left + now > MaxNow
  /\ writer \in [Writers -> {Idle} \cup [at : {"saved", "written"}]]
  /\ req \in [Clients -> {Idle} \cup [at : {"rendered"}, data : Nat, asOf : Nat]]
  /\ \A c \in Clients : req[c] # Idle => Quiet /\ req[c].data = data
  /\ client \in [Clients -> [etag : Nat, data : Nat]]
  /\ \A c \in Clients : client[c].etag <= Read.value
  /\ \A v \in DOMAIN pages : v \in Nat /\ v <= Read.value
       /\ pages[v] \in [data : Nat, asOf : Nat, left : Nat]
  /\ At("saved") => Unseen
  /\ Quiet => /\ Read.value \in DOMAIN pages => pages[Read.value].data = data
              /\ \A c \in Clients : client[c].etag = Read.value => client[c].data = data
=============================================================================
