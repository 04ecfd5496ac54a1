----------------------------- MODULE PublicRead -----------------------------
(***************************************************************************)
(* The readers of a patch-sensitive source: GET /datasets/<source> with    *)
(* its entity tag (app/public_cache.py, get_dataset in app/main.py), a     *)
(* client that revalidates what it holds, and the row endpoint that reads  *)
(* the dataset file itself.  It composes with the refresh and the policy   *)
(* of EarlyPublication; the tag and the body are computed one after the    *)
(* other from files that change in between.                                *)
(***************************************************************************)
EXTENDS EarlyPublication

VARIABLES
  request,         \* the request that is being answered: its tag
  client           \* the tag and the body a client holds

readVars == <<request, client>>

NoTag == [ver |-> 0, revision |-> 0, view |-> Idle.token]
Tags == [ver : 0 .. MaxVersion, revision : Nat, view : Tokens]

ReadTypeOK ==
  /\ TypeOK
  /\ request \in [open : BOOLEAN, tag : Tags]
  /\ client \in [holds : BOOLEAN, tag : Tags, body : MaybeData]

\* Mutant: the tag is the time of the dataset alone.
TimeTag == [NoTag EXCEPT !.ver = Ver(dataset)]

\* cache_revision and build_etag: the time of the dataset, the revision of the
\* control file and the token of the policy; fetched_at tells the datasets
\* apart.
Tag == [ver |-> Ver(dataset), revision |-> policy.revision,
        view |-> IF dataset = NoData THEN NoTag.view ELSE View]

\* get_dataset: the body
Body == Resolve(dataset, View.early)

ReadInit ==
  /\ Init
  /\ request = [open |-> FALSE, tag |-> NoTag]
  /\ client = [holds |-> FALSE, tag |-> NoTag, body |-> NoData]

\* PublicCacheMiddleware computes the tag before the application runs.
Open ==
  /\ ~request.open
  /\ request' = [open |-> TRUE, tag |-> Tag]
  /\ UNCHANGED <<vars, client>>

\* The application answers: 404 without a dataset, 304 if the client sent this
\* very tag, the body otherwise.
Answer ==
  /\ request.open
  /\ request' = [open |-> FALSE, tag |-> NoTag]
  /\ client' = IF Body = NoData \/ (client.holds /\ client.tag = request.tag) THEN client
               ELSE [holds |-> TRUE, tag |-> request.tag, body |-> Body]
  /\ UNCHANGED vars

ReadNext ==
  \/ Next /\ UNCHANGED readVars
  \/ Open
  \/ Answer

ReadSpec == ReadInit /\ [][ReadNext]_<<vars, readVars>>

-----------------------------------------------------------------------------
\* While no refresh is under way and none died, a client whose tag is the
\* current one holds the current body, so that an answer 304 is true; every
\* publication, policy change and expiry that changes the body changes the tag.
NotModifiedIsTrue ==
  job.pc = "idle" /\ crashes = 0 /\ client.holds /\ client.tag = Tag /\ Body # NoData
    => client.body = Body

\* What a client gets for a tag that was computed in stable mode after the last
\* policy change is never provisional.
StableTagStableBody ==
  client.holds /\ client.tag.revision = policy.revision /\ ~client.tag.view.early
     /\ client.tag.view.configured
    => ~IsProvisional(client.body)

-----------------------------------------------------------------------------
(* The strengthening.                                                      *)

\* A tag that is not the current one never comes back: revisions and versions go
\* up, a candidate that is not saved yet was never served, and an early policy
\* that has ended does not begin again.
Known(tag) ==
  /\ tag.revision <= policy.revision /\ tag.ver <= version
  /\ Pending => tag.ver # job.cand.ver
  /\ tag.revision = policy.revision /\ tag.ver # 0 /\ ~tag.view.early => ~View.early
  /\ tag.view.configured => tag.ver # 0

ReadInv ==
  /\ Known(request.tag) /\ Known(client.tag)
  /\ crashes = 0 /\ client.holds /\ client.tag = Tag /\ Body # NoData =>
       client.body = Body \/ job.pc = "save"
  /\ StableTagStableBody
=============================================================================
