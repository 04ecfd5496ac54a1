------------------------------ MODULE AnswerCache ------------------------------
(***************************************************************************)
(* Answers to GraphQL queries (src/app/graphql_api/governance.py) and the  *)
(* cache they share with other processes (src/app/redis_cache.py): a few   *)
(* entries in each process, least recently used first out, in front of     *)
(* Redis, which may stop answering.  A query may be sent as a digest once  *)
(* some client has registered its text; answers are kept when nobody's     *)
(* credentials were needed for them.                                       *)
(*                                                                         *)
(* A digest is the query it belongs to.  An entry says when its data was   *)
(* read and whether with credentials.  Calls to Redis are steps of their   *)
(* own and take less than a unit of time.                                  *)
(***************************************************************************)
EXTENDS Integers, Sequences

CONSTANTS
  Workers, Clients,
  Queries,
  Sent,            \* the requests: process, query, digest, credentials or not
  Cacheable,       \* those whose answer may be kept: one query operation
  Ttl,             \* graphql_cache_ttl_seconds
  Refill,          \* of an entry taken over from Redis
  Timeout,         \* graphql_timeout_seconds
  LocalEntries,
  Retry,           \* how long a process leaves a failing Redis alone
  MaxTime          \* bound on the clock

VARIABLES
  now,
  redis,           \* entries by key
  local,           \* the entries of a process, least recently used first
  off,             \* until when a process does not ask Redis
  client

vars == <<now, redis, local, off, client>>

None == "none"

\* A request has a text or a digest.  Answers live for some time: with a lifetime of 0
\* none is kept.
CacheAssumption ==
  /\ Sent \subseteq [at : Workers, query : Queries \union {None},
                     digest : Queries \union {None}, credentials : BOOLEAN]
  /\ \A s \in Sent : s.query # None \/ s.digest # None
  /\ Cacheable \subseteq Queries /\ None \notin Queries
  /\ Ttl \in Nat \ {0} /\ Refill \in Nat \ {0}
  /\ {Timeout, LocalEntries, Retry, MaxTime} \subseteq Nat

Keys == {"text", "answer"} \X Queries
\* A persisted text outlives the run.
TtlOf(key) == IF key[1] = "text" THEN MaxTime + 1 ELSE Ttl

NoEntry == [query |-> None, read |-> 0, private |-> FALSE, until |-> 0]
NewClient ==
  [pc |-> "idle", at |-> None, query |-> None, digest |-> None, credentials |-> FALSE,
   run |-> None, key |-> <<>>, value |-> NoEntry, began |-> 0]

TypeOK ==
  /\ now \in 0 .. MaxTime
  /\ \A k \in Keys : redis[k].query \in Queries \union {None}
  /\ \A w \in Workers : off[w] \in Nat /\ \A i \in DOMAIN local[w] : local[w][i].key \in Keys
  /\ \A c \in Clients :
       client[c].pc \in {"idle", "resolve", "get", "asking", "put", "guard", "computing",
                         "answered", "served"}

Init ==
  /\ now = 0 /\ redis = [k \in Keys |-> NoEntry]
  /\ local = [w \in Workers |-> <<>>] /\ off = [w \in Workers |-> 0]
  /\ client = [c \in Clients |-> NewClient]

-----------------------------------------------------------------------------
(* The tiered cache.                                                       *)

Set(c, fields) == client' = [client EXCEPT ![c] = fields]
Places(w, key) == {i \in DOMAIN local[w] : local[w][i].key = key}
Live(w, key) == \E i \in Places(w, key) : local[w][i].until > now

\* A key has one place at most.
Place(w, key) == CHOOSE i \in Places(w, key) : TRUE
Found(w, key) == local[w][Place(w, key)]
Without(w, key) ==
  IF Places(w, key) = {} THEN local[w]
  ELSE SubSeq(local[w], 1, Place(w, key) - 1)
         \o SubSeq(local[w], Place(w, key) + 1, Len(local[w]))

\* The newest entries, the one just put last.
Newest(entries) ==
  SubSeq(entries, IF Len(entries) > LocalEntries THEN Len(entries) - LocalEntries + 1 ELSE 1,
         Len(entries))

PutLocal(w, key, value, ttl) ==
  local' = [local EXCEPT ![w] =
    Newest(Append(Without(w, key),
                  [key |-> key, value |-> [value EXCEPT !.until = 0], until |-> now + ttl]))]

\* The query a request means.
Asked(c) == IF client[c].query # None THEN client[c].query ELSE client[c].digest

Served(c, value) ==
  [NewClient EXCEPT !.pc = "served", !.query = Asked(c), !.credentials = client[c].credentials,
                    !.value = [value EXCEPT !.until = 0]]

\* Where a lookup goes on: the text it stands for, or the answer.
Hit(c, value) ==
  IF client[c].key[1] = "text" THEN [client[c] EXCEPT !.pc = "guard", !.run = value.query]
  ELSE Served(c, value)

Miss(c) ==
  IF client[c].key[1] = "text" THEN NewClient ELSE [client[c] EXCEPT !.pc = "computing", !.began = now]

\* An entry that is live in the process is moved to the end.
GetLocal(c) ==
  LET w == client[c].at key == client[c].key IN
    /\ client[c].pc = "get"
    /\ IF Live(w, key)
       THEN /\ Set(c, Hit(c, Found(w, key).value))
            /\ local' = [local EXCEPT ![w] = Append(Without(w, key), Found(w, key))]
       ELSE /\ Set(c, [client[c] EXCEPT !.pc = "asking"])
            /\ local' = [local EXCEPT ![w] = Without(w, key)]
    /\ UNCHANGED <<now, redis, off>>

Asks(w) == off[w] <= now
Held(key) == redis[key].query # None

GetShared(c) ==
  LET w == client[c].at key == client[c].key IN
    /\ client[c].pc = "asking"
    /\ IF Asks(w) /\ Held(key)
       THEN /\ Set(c, Hit(c, redis[key]))
            /\ PutLocal(w, key, redis[key], Refill)
       ELSE Set(c, Miss(c)) /\ UNCHANGED local
    /\ UNCHANGED <<now, redis, off>>

\* What follows a value that was stored in the process.
Stored(c) ==
  IF client[c].key[1] = "text" THEN [client[c] EXCEPT !.pc = "guard"]
  ELSE Served(c, client[c].value)

PutShared(c) ==
  LET w == client[c].at key == client[c].key IN
    /\ client[c].pc = "put" /\ Set(c, Stored(c))
    /\ redis' = IF Asks(w) THEN [redis EXCEPT ![key] = [client[c].value EXCEPT !.until = now + TtlOf(key)]]
                ELSE redis
    /\ UNCHANGED <<now, local, off>>

\* Redis does not answer, although it may have stored the value.
RedisFails(c) ==
  LET w == client[c].at key == client[c].key IN
    /\ client[c].pc \in {"asking", "put"} /\ Asks(w)
    /\ off' = [off EXCEPT ![w] = now + Retry]
    /\ \/ client[c].pc = "asking" /\ Set(c, Miss(c)) /\ UNCHANGED redis
       \/ /\ client[c].pc = "put" /\ Set(c, Stored(c))
          /\ redis' \in {redis, [redis EXCEPT ![key] = [client[c].value EXCEPT !.until = now + TtlOf(key)]]}
    /\ UNCHANGED <<now, local>>

-----------------------------------------------------------------------------
(* A request.                                                              *)

Store(c, key, value) ==
  /\ Set(c, [client[c] EXCEPT !.pc = "put", !.key = key, !.value = value])
  /\ PutLocal(client[c].at, key, value, TtlOf(key))

Send(c, s) ==
  /\ client[c].pc \in {"idle", "served"}
  /\ Set(c, [NewClient EXCEPT !.pc = "resolve", !.at = s.at, !.query = s.query,
                              !.digest = s.digest, !.credentials = s.credentials])
  /\ UNCHANGED <<now, redis, local, off>>

\* A text is registered only under its own digest.
Resolve(c) ==
  LET query == client[c].query digest == client[c].digest key == <<"text", digest>> IN
    /\ client[c].pc = "resolve"
    /\ CASE digest = None ->
              Set(c, [client[c] EXCEPT !.pc = "guard", !.run = query]) /\ UNCHANGED local
         [] digest # None /\ query = None ->
              Set(c, [client[c] EXCEPT !.pc = "get", !.key = key]) /\ UNCHANGED local
         [] digest # None /\ query = digest ->
              /\ Set(c, [client[c] EXCEPT !.pc = "put", !.run = query, !.key = key,
                                          !.value = [NoEntry EXCEPT !.query = query]])
              /\ PutLocal(client[c].at, key, [NoEntry EXCEPT !.query = query], TtlOf(key))
         [] OTHER -> Set(c, NewClient) /\ UNCHANGED local
    /\ UNCHANGED <<now, redis, off>>

MayShare(c) == client[c].run \in Cacheable /\ ~client[c].credentials

\* The query is refused if it cannot be parsed or is too complex.
Guard(c, fits) ==
  /\ client[c].pc = "guard"
  /\ Set(c, CASE ~fits -> NewClient
              [] fits /\ MayShare(c) -> [client[c] EXCEPT !.pc = "get", !.key = <<"answer", client[c].run>>,
                                                         !.value = NoEntry]
              [] OTHER -> [client[c] EXCEPT !.pc = "computing", !.began = now, !.value = NoEntry])
  /\ UNCHANGED <<now, redis, local, off>>

Read(c) ==
  /\ client[c].pc = "computing"
  /\ Set(c, [client[c] EXCEPT !.pc = "answered",
               !.value = [query |-> client[c].run, read |-> now, private |-> client[c].credentials,
                          until |-> 0]])
  /\ UNCHANGED <<now, redis, local, off>>

\* An answer with errors, or with a status of its own, is passed on and not kept.
Finish(c, clean) ==
  /\ client[c].pc = "answered"
  /\ IF clean /\ MayShare(c) THEN Store(c, <<"answer", client[c].run>>, client[c].value)
     ELSE Set(c, Served(c, client[c].value)) /\ UNCHANGED local
  /\ UNCHANGED <<now, redis, off>>

\* The deadline, or an answer that is too large.
Fail(c) ==
  /\ client[c].pc \in {"computing", "answered"} /\ Set(c, NewClient)
  /\ UNCHANGED <<now, redis, local, off>>

Tick ==
  /\ now < MaxTime /\ now' = now + 1
  /\ \A c \in Clients :
       /\ client[c].pc \notin {"get", "asking", "put", "resolve", "guard"}
       /\ client[c].pc \in {"computing", "answered"} => now - client[c].began < Timeout
  /\ redis' = [k \in Keys |-> IF redis[k].until <= now' THEN NoEntry ELSE redis[k]]
  /\ client' = [c \in Clients |-> IF client[c].pc = "served" THEN NewClient ELSE client[c]]
  /\ off' = [w \in Workers |-> IF off[w] <= now' THEN 0 ELSE off[w]]
  /\ UNCHANGED local

Next ==
  \/ Tick
  \/ \E c \in Clients :
       \/ GetLocal(c) \/ GetShared(c) \/ PutShared(c) \/ RedisFails(c)
       \/ Resolve(c) \/ Read(c) \/ Fail(c)
       \/ \E yes \in BOOLEAN : Guard(c, yes) \/ Finish(c, yes)
       \/ \E s \in Sent : Send(c, s)

Spec == Init /\ [][Next]_vars

-----------------------------------------------------------------------------
\* Nobody is served what was read for another query, with credentials other than
\* their own, or longer ago than an entry lives in Redis and once more in a process,
\* where an entry that lives for n units is found for n - 1
\* (_put_local of an entry taken over; _has_credentials).
ServedRightly ==
  \A c \in Clients :
    client[c].pc = "served" =>
      /\ client[c].value.query = client[c].query
      /\ client[c].value.private = client[c].credentials
      /\ now - client[c].value.read <= Timeout + (Ttl - 1) + (Refill - 1)

\* A digest stands for its query in every tier (_resolve_persisted_query).
DigestMeansQuery ==
  /\ \A c \in Clients : client[c].run # None => client[c].run = Asked(c)
  /\ \A k \in Keys : Held(k) => redis[k].query = k[2]
  /\ \A w \in Workers : \A i \in DOMAIN local[w] : local[w][i].value.query = local[w][i].key[2]

\* Nothing read with credentials, and nothing that must not be kept, is in a tier;
\* a process keeps no more entries than it may, each once.
KeptRightly ==
  /\ \A k \in Keys : Held(k) => ~redis[k].private /\ (k[1] = "answer" => k[2] \in Cacheable)
  /\ \A w \in Workers :
       /\ Len(local[w]) <= LocalEntries
       /\ \A i, j \in DOMAIN local[w] : local[w][i].key = local[w][j].key => i = j
       /\ \A i \in DOMAIN local[w] : ~local[w][i].value.private
=============================================================================
