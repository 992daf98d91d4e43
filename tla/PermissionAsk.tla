----------------------------- MODULE PermissionAsk -----------------------------
(***************************************************************************)
(* How a tool call gets permission (core/src/permission.ts, assert, reply, *)
(* grant) at one Location, with the scoped grants (grant/store.ts) and the *)
(* saved approvals of the project (permission/saved.ts).                   *)
(*                                                                         *)
(* A request asks for one kind of thing (an action on resources).  The     *)
(* rules of its Session allow it, deny it or ask; when they ask, a grant   *)
(* may answer for the user, and otherwise the request is parked until a    *)
(* client answers, it expires or its caller gives up.  Answers take one    *)
(* lock, the decisions semaphore, and are announced after releasing it.    *)
(*                                                                         *)
(* What the rules say is abstracted to a policy of the Session: "open"     *)
(* lets saved approvals through, "gated" asks whatever is saved, "closed"  *)
(* denies.  Grants for one use and expiring grants, that no code issues,   *)
(* are left out; so is the method ask, that no code calls.                 *)
(***************************************************************************)
EXTENDS Integers, FiniteSets, Sequences

CONSTANTS Session, Kind, Request,
          SessionOf,   \* [Request -> Session]
          KindOf,      \* [Request -> Kind]
          Client       \* fibers that answer: HTTP requests

AskAssumption ==
  /\ SessionOf \in [Request -> Session] /\ KindOf \in [Request -> Kind]
  /\ "free" \notin Client

Policy == {"open", "gated", "closed"}
Reply == {"once", "always", "reject"}

VARIABLES policy,    \* [Session -> Policy]
          saved,     \* kinds with a saved approval, durable
          grants,    \* durable: [by |-> request, session |-> set of sessions, live]
          pc,        \* [Request -> where the call is]
          out,       \* [Request -> how the call ended]
          pending,   \* requests in the map of pending ones
          deferred,  \* [Request -> "open", or how it was settled]
          lock,      \* the client that holds the decisions lock, or "free"
          client,    \* [Client -> what it does]
          asked,     \* history: requests announced as asked
          told,      \* history: [Request -> Seq(Reply)], announced answers
          answered,  \* history: <<request, "yes" or "no">>, the decisions of clients
          mute       \* history: requests whose answer was not announced, by a fault

vars == <<policy, saved, grants, pc, out, pending, deferred, lock, client,
          asked, told, answered, mute>>
call == <<pc, out>>
durable == <<saved, grants>>
history == <<asked, told, answered, mute>>

Idle == [at |-> "idle", op |-> "none", req |-> "none", items |-> <<>>]

Init ==
  /\ policy \in [Session -> Policy]
  /\ saved = {} /\ grants = {}
  /\ pc = [r \in Request |-> "idle"] /\ out = [r \in Request |-> "none"]
  /\ pending = {} /\ deferred = [r \in Request |-> "none"]
  /\ lock = "free" /\ client = [c \in Client |-> Idle]
  /\ asked = {} /\ told = [r \in Request |-> <<>>] /\ answered = {} /\ mute = {}

SetOf(s) == {s[i] : i \in DOMAIN s}

\* A sequence without repetition of the elements of S, in some order.
Orders(S) == {s \in [1..Cardinality(S) -> S] : \A i, j \in DOMAIN s : s[i] = s[j] => i = j}

------------------------------------------------------------------------------
(* The call. *)

\* evaluateInput
Effect(r) ==
  LET p == policy[SessionOf[r]] IN
  IF p = "closed" THEN "deny"
  ELSE IF p = "open" /\ KindOf[r] \in saved THEN "allow" ELSE "ask"

\* consultGrant: findValid
Granted(r) ==
  \E g \in grants : g.live /\ KindOf[g.by] = KindOf[r] /\ SessionOf[r] \in g.session

Ends(r, how) == pc' = [pc EXCEPT ![r] = "done"] /\ out' = [out EXCEPT ![r] = how]
Goes(r, at) == pc' = [pc EXCEPT ![r] = at] /\ UNCHANGED out

Evaluate(r) ==
  /\ pc[r] = "idle"
  /\ \/ Effect(r) = "deny" /\ Ends(r, "denied")
     \/ Effect(r) = "allow" /\ Ends(r, "allowed")
     \/ Effect(r) = "ask" /\ Goes(r, "consult")
  /\ UNCHANGED <<policy, durable, pending, deferred, lock, client, history>>

Consult(r) ==
  /\ pc[r] = "consult"
  /\ IF Granted(r) THEN Ends(r, "allowed") ELSE Goes(r, "responder")
  /\ UNCHANGED <<policy, durable, pending, deferred, lock, client, history>>

\* Whether a client is there that could answer is a hint, kept by connections.
requireResponder(r) ==
  /\ pc[r] = "responder"
  /\ Goes(r, "create") \/ Ends(r, "unanswerable")
  /\ UNCHANGED <<policy, durable, pending, deferred, lock, client, history>>

\* create: first the map, without the lock,
Register(r) ==
  /\ pc[r] = "create"
  /\ Goes(r, "announce")
  /\ pending' = pending \cup {r} /\ deferred' = [deferred EXCEPT ![r] = "open"]
  /\ UNCHANGED <<policy, durable, lock, client, history>>

\* then the event; when it fails the request is withdrawn.
Announce(r) ==
  /\ pc[r] = "announce"
  /\ \/ Goes(r, "parked") /\ asked' = asked \cup {r} /\ UNCHANGED pending
     \/ Ends(r, "died") /\ pending' = pending \ {r} /\ UNCHANGED asked
  /\ UNCHANGED <<policy, durable, deferred, lock, client, told, answered, mute>>

\* How a settled request ends its call.
Outcome(how) == CASE how \in {"once", "always"} -> "allowed"
                  [] how = "reject"  -> "rejected"
                  [] how = "expired" -> "expired"

\* The call goes on when its deferred is settled; it leaves the map, if it must.
Answered(r) ==
  /\ pc[r] = "parked" /\ deferred[r] # "open"
  /\ pc' = [pc EXCEPT ![r] = "leave"] /\ out' = [out EXCEPT ![r] = Outcome(deferred[r])]
  /\ UNCHANGED <<policy, durable, pending, deferred, lock, client, history>>

Interrupted(r) ==
  /\ pc[r] = "parked"
  /\ pc' = [pc EXCEPT ![r] = "leave"] /\ out' = [out EXCEPT ![r] = "interrupted"]
  /\ UNCHANGED <<policy, durable, pending, deferred, lock, client, history>>

TimesOut(r) ==
  /\ pc[r] = "parked" /\ deferred[r] = "open"
  /\ Goes(r, "expire")
  /\ UNCHANGED <<policy, durable, pending, deferred, lock, client, history>>

\* Under the lock: an answer that came first stands.
Expire(r) ==
  /\ pc[r] = "expire" /\ lock = "free"
  /\ IF r \in pending
     THEN /\ pending' = pending \ {r} /\ deferred' = [deferred EXCEPT ![r] = "expired"]
          /\ pc' = [pc EXCEPT ![r] = "tell"] /\ out' = [out EXCEPT ![r] = "expired"]
     ELSE /\ deferred[r] # "open"
          /\ pc' = [pc EXCEPT ![r] = "leave"] /\ out' = [out EXCEPT ![r] = Outcome(deferred[r])]
          /\ UNCHANGED <<pending, deferred>>
  /\ UNCHANGED <<policy, durable, lock, client, history>>

\* Under the lock: who takes the request off the map announces its end.
Leave(r) ==
  /\ pc[r] = "leave" /\ lock = "free"
  /\ pending' = pending \ {r}
  /\ pc' = [pc EXCEPT ![r] = IF r \in pending THEN "tell" ELSE "done"]
  /\ UNCHANGED <<policy, durable, out, deferred, lock, client, history>>

\* A publication that fails is a defect of the call.
Tell(r) ==
  /\ pc[r] = "tell"
  /\ \/ Goes(r, "done") /\ told' = [told EXCEPT ![r] = Append(@, "reject")] /\ UNCHANGED mute
     \/ Ends(r, "died") /\ mute' = mute \cup {r} /\ UNCHANGED told
  /\ UNCHANGED <<policy, durable, pending, deferred, lock, client, asked, answered>>

------------------------------------------------------------------------------
(* The clients. *)

Doing(c, rec) == client' = [client EXCEPT ![c] = rec]

\* What a client may send: an answer to a request that is pending then, or a grant.
Send(c) ==
  /\ client[c] = Idle
  /\ \E r \in pending, op \in Reply \cup {"session", "location"} :
       Doing(c, [Idle EXCEPT !.at = "want", !.op = op, !.req = r])
  /\ UNCHANGED <<policy, durable, call, pending, deferred, lock, history>>

\* Mutant: the request is looked for before the lock is taken.
EnterUnchecked(c) ==
  /\ client[c].at = "want" /\ lock = "free"
  /\ lock' = c /\ Doing(c, [client[c] EXCEPT !.at = "decide"])
  /\ UNCHANGED <<policy, durable, call, pending, deferred, history>>

\* Takes the lock; the request may be gone by now.
Enter(c) ==
  /\ client[c].at = "want" /\ lock = "free"
  /\ IF client[c].req \in pending
     THEN lock' = c /\ Doing(c, [client[c] EXCEPT !.at = "decide"])
     ELSE UNCHANGED lock /\ Doing(c, Idle)
  /\ UNCHANGED <<policy, durable, call, pending, deferred, history>>

Answer(c) == IF client[c].op \in Reply THEN client[c].op ELSE "once"

\* settle, for items in this order; the lock is released.
settle(c, items) ==
  /\ pending' = pending \ SetOf(items)
  /\ deferred' = [r \in Request |-> IF r \in SetOf(items) THEN Answer(c) ELSE deferred[r]]
  /\ lock' = "free"
  /\ Doing(c, [client[c] EXCEPT !.at = "told", !.items = items])

SameSession(r) == {x \in pending \ {r} : SessionOf[x] = SessionOf[r]}

replyReject(c) ==
  LET r == client[c].req IN
  /\ client[c].at = "decide" /\ client[c].op = "reject"
  /\ \E others \in Orders(SameSession(r)) : settle(c, <<r>> \o others)
  /\ answered' = answered \cup {<<r, "no">>}
  /\ UNCHANGED <<policy, durable, call, asked, told, mute>>

\* So is approved for good what says of no resources that they be saved.
replyOnce(c) ==
  LET r == client[c].req IN
  /\ client[c].at = "decide" /\ client[c].op \in {"once", "always"}
  /\ settle(c, <<r>>)
  /\ answered' = answered \cup {<<r, "yes">>}
  /\ UNCHANGED <<policy, durable, call, asked, told, mute>>

\* A failed write leaves the request pending.
replyAlwaysSaves(c) ==
  LET r == client[c].req IN
  /\ client[c].at = "decide" /\ client[c].op = "always"
  /\ \/ /\ saved' = saved \cup {KindOf[r]}
        /\ Doing(c, [client[c] EXCEPT !.at = "scan"])
        /\ answered' = answered \cup {<<r, "yes">>}
        /\ UNCHANGED lock
     \/ Doing(c, Idle) /\ lock' = "free" /\ UNCHANGED <<saved, answered>>
  /\ UNCHANGED <<policy, grants, call, pending, deferred, asked, told, mute>>

\* The other pending requests that the rules allow now.
AllowedNow(r) == {x \in pending \ {r} : Effect(x) = "allow"}

replyAlwaysScans(c) ==
  /\ client[c].at = "scan"
  /\ \E others \in Orders(AllowedNow(client[c].req)) :
       Doing(c, [client[c] EXCEPT !.at = "settle", !.items = <<client[c].req>> \o others])
  /\ UNCHANGED <<policy, durable, call, pending, deferred, lock, history>>

replyAlwaysSettles(c) ==
  /\ client[c].at = "settle"
  /\ settle(c, client[c].items)
  /\ UNCHANGED <<policy, durable, call, history>>

\* grant: issue, then settle; a failed write leaves the request pending.
grantIssues(c) ==
  LET r == client[c].req
      scope == IF client[c].op = "session" THEN {SessionOf[r]} ELSE Session
  IN
  /\ client[c].at = "decide" /\ client[c].op \in {"session", "location"}
  /\ \/ /\ grants' = grants \cup {[by |-> r, session |-> scope, live |-> TRUE]}
        /\ Doing(c, [client[c] EXCEPT !.at = "settle", !.items = <<r>>])
        /\ answered' = answered \cup {<<r, "yes">>}
        /\ UNCHANGED lock
     \/ Doing(c, Idle) /\ lock' = "free" /\ UNCHANGED <<grants, answered>>
  /\ UNCHANGED <<policy, saved, call, pending, deferred, asked, told, mute>>

\* publishReplies, one event after the other; a failure ends it.
publishReplies(c) ==
  /\ client[c].at = "told"
  /\ \/ /\ told' = [told EXCEPT ![Head(client[c].items)] = Append(@, Answer(c))]
        /\ UNCHANGED mute
        /\ IF Len(client[c].items) = 1 THEN Doing(c, Idle)
           ELSE Doing(c, [client[c] EXCEPT !.items = Tail(@)])
     \/ mute' = mute \cup SetOf(client[c].items) /\ Doing(c, Idle) /\ UNCHANGED told
  /\ UNCHANGED <<policy, durable, call, pending, deferred, lock, asked, answered>>

\* A client that goes away while it waits for the lock never asked.  (One that goes
\* away right after its decision does as a failing publication.)
GoesAway(c) ==
  /\ client[c].at = "want"
  /\ Doing(c, Idle)
  /\ UNCHANGED <<policy, durable, call, pending, deferred, lock, history>>

------------------------------------------------------------------------------
(* Around them. *)

Unsave(k) ==
  /\ k \in saved /\ saved' = saved \ {k}
  /\ UNCHANGED <<policy, grants, call, pending, deferred, lock, client, history>>

revoke(g) ==
  /\ g.live /\ grants' = (grants \ {g}) \cup {[g EXCEPT !.live = FALSE]}
  /\ UNCHANGED <<policy, saved, call, pending, deferred, lock, client, history>>

------------------------------------------------------------------------------
CallSteps(r) ==
  \/ Evaluate(r) \/ Consult(r) \/ requireResponder(r) \/ Register(r) \/ Announce(r)
  \/ Answered(r) \/ TimesOut(r) \/ Tell(r)

LockSteps(r) == Expire(r) \/ Leave(r)

Decides(c) ==
  \/ replyReject(c) \/ replyOnce(c)
  \/ replyAlwaysSaves(c) \/ replyAlwaysScans(c) \/ replyAlwaysSettles(c)
  \/ grantIssues(c) \/ publishReplies(c)

Next ==
  \/ \E r \in Request : CallSteps(r) \/ LockSteps(r) \/ Interrupted(r)
  \/ \E c \in Client : Send(c) \/ Enter(c) \/ Decides(c) \/ GoesAway(c)
  \/ \E k \in Kind : Unsave(k)
  \/ \E g \in grants : revoke(g)

Spec == Init /\ [][Next]_vars

\* Fibers go on; the semaphore serves those that wait for it in turn; the clock
\* runs, so that a parked call times out in the end.
FairSpec ==
  /\ Spec
  /\ \A r \in Request : WF_vars(CallSteps(r)) /\ SF_vars(LockSteps(r))
  /\ \A c \in Client : WF_vars(Decides(c))

------------------------------------------------------------------------------
(* Properties. *)

At == {"idle", "consult", "responder", "create", "announce", "parked", "expire",
       "leave", "tell", "done"}

\* The state is well formed, and what is pending is open and belongs to a call
\* that has not ended, but for the moment in which its answer is being settled.
TypeOK ==
  /\ pc \in [Request -> At]
  /\ pending \subseteq Request /\ saved \subseteq Kind
  /\ lock \in Client \cup {"free"}
  /\ \A c \in Client : lock = c <=> client[c].at \in {"decide", "scan", "settle"}
  /\ \A r \in pending :
       deferred[r] = "open" /\ pc[r] \in {"announce", "parked", "expire", "leave"}
  /\ asked \subseteq Request

\* A request is answered to the clients at most once, and what they are told is
\* what became of the call: an approved call is never told rejected, nor one told
\* approved refused or expired; whatever races of answers, timeouts and withdrawals.
OneClosure ==
  \A r \in Request :
    /\ Len(told[r]) <= 1
    /\ told[r] = <<"reject">> => out[r] # "allowed"
    /\ told[r] \in {<<"once">>, <<"always">>} => out[r] \notin {"rejected", "expired"}

Holds(r) == \E c \in Client : client[c].at = "settle" /\ r = client[c].req

\* A grant is tied to the request it answers: one grant at most for a request, and
\* the request is not rejected or expired beside it.
GrantOwnsRequest ==
  \A g \in grants :
    /\ \A h \in grants : h.by = g.by => h = g
    /\ deferred[g.by] = "once" \/ Holds(g.by)

\* In a Session that asks whatever is saved, a call is allowed only by an answer to
\* itself or by a grant; never because another request was approved for good.
OwnAnswer ==
  \A r \in Request :
    out[r] = "allowed" /\ policy[SessionOf[r]] = "gated" =>
      \/ <<r, "yes">> \in answered
      \/ \E g \in grants : KindOf[g.by] = KindOf[r] /\ SessionOf[r] \in g.session

\* A rejection takes the other requests of its Session with it, and no others.
RejectInSession ==
  \A r \in Request :
    out[r] = "rejected" => \E x \in Request : <<x, "no">> \in answered /\ SessionOf[x] = SessionOf[r]

\* An ask ends once, in what its clients are told, by an answer or a grant that is
\* its own, whatever races of answers, timeouts, withdrawals and revocations.
AsksAreClosedOnce ==
  TypeOK /\ OneClosure /\ GrantOwnsRequest /\ OwnAnswer /\ RejectInSession

\* A parked call ends: no answer, and no timeout that waits for one, strands it.
AsksEnd == \A r \in Request : pc[r] = "parked" ~> pc[r] = "done"

\* What was announced as asked is announced as answered, unless a publication failed.
AskedIsClosed ==
  \A r \in Request : r \in asked ~> told[r] # <<>> \/ r \in mute
==============================================================================
