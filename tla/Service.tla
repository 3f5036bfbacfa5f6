------------------------------- MODULE Service -------------------------------
(***************************************************************************)
(* The server and its clients (adabt-server): one accept loop with a cap   *)
(* on open connections, one thread per connection that decodes frames,     *)
(* authorises and answers them one after the other, and a shutdown that    *)
(* stops accepting, drains, checkpoints and exits.                         *)
(*                                                                         *)
(* The engine behind it is the set of writes it has applied.  A request    *)
(* travels as one item; the pieces TCP cuts it into change nothing until   *)
(* the frame is whole.  TLS wraps the same bytes and is left out.          *)
(***************************************************************************)
EXTENDS Integers, Sequences, FiniteSets

CONSTANTS
    Conns,          \* connections, each made by one Client and used once
    MaxOpen,        \* max_connections
    Tokens,         \* the credentials configured: a subset of the roles
    Kinds,          \* the requests the clients send
    MaxCalls,       \* bound on the calls of all clients
    IdleTimeout,    \* whether silent connections are closed
    Wake,           \* the connection Stopper::stop makes
    NoRole            \* not authenticated

ASSUME ServiceAssumption ==
    /\ MaxOpen \in Nat \ {0}
    /\ Wake \notin Conns
    /\ NoRole \notin {"admin", "reader"}
    /\ Tokens = {} \/ "admin" \in Tokens     \* main refuses a reader token alone

VARIABLES
    signalled,  \* the signal handler has stored its flag
    stop,       \* the accept loop's flag
    stage,      \* "accepting", "draining", "returned", "exited"
    backlog,    \* connections the listener has not handed out
    active,     \* the shared count of open connections
    thread,     \* connection -> what its server thread is doing
    role,       \* connection -> what it may do
    wire,       \* connection -> requests sent and not yet decoded
    replies,    \* connection -> replies sent and not yet read
    client,     \* connection -> its Client
    applied     \* the writes the engine has applied

cvars == <<client, wire>>
mvars == <<signalled, stop, stage>>
servervars == <<signalled, stop, stage, backlog, active, thread, role, wire, replies, client, applied>>

WriteKinds == {"insert", "optimize"}
Logins == {"auth_admin", "auth_reader", "auth_wrong"}

-----------------------------------------------------------------------------
\* The client: one call at a time, every reply for the request just sent

connect(c) ==
    /\ client[c].at = "new" /\ stage \in {"accepting", "draining"}
    /\ client' = [client EXCEPT ![c].at = "open"]
    /\ backlog' = Append(backlog, c)
    /\ UNCHANGED <<mvars, active, thread, role, wire, replies, applied>>

Up(c) == client[c].at = "open"

call(c, kind) ==
    /\ Up(c) /\ client[c].waits = 0
    /\ Cardinality(UNION {{d} \X DOMAIN client[d].asked : d \in Conns}) < MaxCalls
    /\ client' = [client EXCEPT ![c].asked = Append(@, kind), ![c].waits = Len(client[c].asked) + 1]
    /\ wire' = [wire EXCEPT ![c] = Append(@, [id |-> Len(client[c].asked) + 1, kind |-> kind])]
    /\ UNCHANGED <<mvars, backlog, active, thread, role, replies, applied>>

next_reply(c) ==
    /\ Up(c) /\ replies[c] # <<>>
    /\ LET first == Head(replies[c]) IN
       client' = [client EXCEPT ![c].waits = 0, ![c].told = @ \cup {first}]
    /\ replies' = [replies EXCEPT ![c] = Tail(@)]
    /\ UNCHANGED <<mvars, backlog, active, thread, role, wire, applied>>

\* The user drops the Client, a call under way or not.
hang_up(c) ==
    /\ Up(c)
    /\ client' = [client EXCEPT ![c].at = "gone"]
    /\ UNCHANGED <<mvars, backlog, active, thread, role, wire, replies, applied>>

\* The other side has closed and everything it sent has been read.
Severed(c) ==
    \/ thread[c] = "ended"
    \/ thread[c] = "none" /\ stage \in {"returned", "exited"}
    \/ stage = "exited"
sees_close(c) ==
    /\ Up(c) /\ Severed(c) /\ replies[c] = <<>>
    /\ client' = [client EXCEPT ![c].at = "gone", ![c].waits = 0]
    /\ UNCHANGED <<mvars, backlog, active, thread, role, wire, replies, applied>>

-----------------------------------------------------------------------------
\* The accept loop (Server::serve)

open_role == IF Tokens = {} THEN "admin" ELSE NoRole

Phases == {"starting", "reading", "serving", "replying", "failing"}
Running(c) == thread[c] \in Phases
accept_next == Head(backlog)

\* The flag is looked at after the accept: the connection that wakes the loop,
\* or a client that came before it, is dropped.
accept_stops ==
    /\ stage = "accepting" /\ backlog # <<>> /\ stop
    /\ stage' = "draining"
    /\ backlog' = Tail(backlog)
    /\ thread' = IF accept_next = Wake THEN thread ELSE [thread EXCEPT ![accept_next] = "ended"]
    /\ UNCHANGED <<signalled, stop, active, role, cvars, replies, applied>>

\* The count is raised here, before the thread exists; its guard lowers it.
Counted == active + 1
accept_refuses ==
    /\ stage = "accepting" /\ backlog # <<>> /\ ~stop
    /\ accept_next # Wake /\ active >= MaxOpen
    /\ backlog' = Tail(backlog)
    /\ thread' = [thread EXCEPT ![accept_next] = "ended"]
    /\ UNCHANGED <<mvars, active, role, cvars, replies, applied>>

accept_spawns ==
    /\ stage = "accepting" /\ backlog # <<>> /\ ~stop
    /\ accept_next # Wake /\ active < MaxOpen
    /\ backlog' = Tail(backlog)
    /\ active' = Counted
    /\ thread' = [thread EXCEPT ![accept_next] = "starting"]
    /\ role' = [role EXCEPT ![accept_next] = open_role]
    /\ UNCHANGED <<mvars, cvars, replies, applied>>

-----------------------------------------------------------------------------
\* A connection's thread (handle, respond, dispatch)

Lives(c) == Running(c) /\ stage # "exited"

starts(c) ==
    /\ thread[c] = "starting" /\ Lives(c)
    /\ thread' = [thread EXCEPT ![c] = "reading"]
    /\ UNCHANGED <<mvars, backlog, active, role, cvars, replies, applied>>

\* ActiveGuard::drop, whatever the reason the thread ends.
Uncounted == active - 1
ends(c) ==
    /\ thread' = [thread EXCEPT ![c] = "ended"]
    /\ active' = Uncounted

\* read returns nothing, or times out; a request never read is lost.
stops_reading(c) ==
    /\ thread[c] = "reading" /\ Lives(c) /\ wire[c] = <<>>
    /\ client[c].at = "gone" \/ IdleTimeout
    /\ ends(c)
    /\ UNCHANGED <<mvars, backlog, role, cvars, replies, applied>>

\* A frame of another version, or past the limit: the stream is meaningless.
decode_fails(c) ==
    /\ thread[c] = "reading" /\ Lives(c) /\ wire[c] # <<>>
    /\ Head(wire[c]).kind = "garbled"
    /\ ends(c)
    /\ UNCHANGED <<mvars, backlog, role, cvars, replies, applied>>

decode(c) ==
    /\ thread[c] = "reading" /\ Lives(c) /\ wire[c] # <<>>
    /\ Head(wire[c]).kind # "garbled"
    /\ thread' = [thread EXCEPT ![c] = "serving"]
    /\ UNCHANGED <<mvars, backlog, active, role, cvars, replies, applied>>

permits_inserts(r, kind) == r = "admin" \/ kind # "optimize"
permits(r, kind) == r = "admin" \/ kind \notin WriteKinds
at_least(r, kind) == r = "admin" \/ kind # "get_walled"

authenticate(kind) ==
    IF kind = "auth_admin" /\ "admin" \in Tokens THEN "admin"
    ELSE IF kind = "auth_reader" /\ "reader" \in Tokens THEN "reader" ELSE NoRole

\* What respond decides before the engine is touched; "" goes on to dispatch.
Verdict(r, kind) ==
    IF kind = "unknown" THEN "bad request"
    ELSE IF r = NoRole
    THEN IF kind \notin Logins THEN "unauthorized"
         ELSE IF authenticate(kind) = NoRole THEN "authentication failed" ELSE "ok"
    ELSE IF permits(r, kind) /\ at_least(r, kind) THEN "" ELSE "forbidden"

Replies(c, id, status) ==
    replies' = [replies EXCEPT ![c] = Append(@, [id |-> id, status |-> status])]

\* Answered without the engine.
refuse_or_log_in(c) ==
    LET req == Head(wire[c]) IN
    /\ thread[c] = "serving" /\ Lives(c)
    /\ Verdict(role[c], req.kind) # ""
    /\ role' = [role EXCEPT ![c] =
                    IF @ = NoRole /\ req.kind \in Logins THEN authenticate(req.kind) ELSE @]
    /\ Replies(c, req.id, Verdict(role[c], req.kind))
    /\ wire' = [wire EXCEPT ![c] = Tail(@)]
    /\ thread' = [thread EXCEPT ![c] = "reading"]
    /\ UNCHANGED <<mvars, backlog, active, client, applied>>

dispatch(c) ==
    LET req == Head(wire[c]) IN
    /\ thread[c] = "serving" /\ Lives(c)
    /\ Verdict(role[c], req.kind) = "" /\ req.kind \notin Logins
    /\ \/ /\ applied' = IF req.kind \in WriteKinds THEN applied \cup {<<c, req.id>>} ELSE applied
          /\ thread' = [thread EXCEPT ![c] = "replying"]
       \/ /\ req.kind \in WriteKinds            \* the engine returns an error
          /\ thread' = [thread EXCEPT ![c] = "failing"]
          /\ UNCHANGED applied
    /\ UNCHANGED <<mvars, backlog, active, role, cvars, replies>>

\* respond hands on an Auth of a connection that has a role, and dispatch
\* declares it unreachable: the thread unwinds and the guard counts it out.
dispatch_panics(c) ==
    /\ thread[c] = "serving" /\ Lives(c)
    /\ Verdict(role[c], Head(wire[c]).kind) = "" /\ Head(wire[c]).kind \in Logins
    /\ ends(c)
    /\ UNCHANGED <<mvars, backlog, role, cvars, replies, applied>>

reply_ok(c) ==
    /\ thread[c] \in {"replying", "failing"} /\ Lives(c)
    /\ Replies(c, Head(wire[c]).id, "ok")
    /\ wire' = [wire EXCEPT ![c] = Tail(@)]
    /\ thread' = [thread EXCEPT ![c] = "reading"]
    /\ UNCHANGED <<mvars, backlog, active, role, client, applied>>

reply(c) ==
    /\ thread[c] \in {"replying", "failing"} /\ Lives(c)
    /\ Replies(c, Head(wire[c]).id, IF thread[c] = "replying" THEN "ok" ELSE "error")
    /\ wire' = [wire EXCEPT ![c] = Tail(@)]
    /\ thread' = [thread EXCEPT ![c] = "reading"]
    /\ UNCHANGED <<mvars, backlog, active, role, client, applied>>

\* The peer has gone: write_all fails and what was served stays served.
reply_fails(c) ==
    /\ thread[c] \in {"replying", "failing"} /\ Lives(c)
    /\ client[c].at = "gone"
    /\ ends(c)
    /\ UNCHANGED <<mvars, backlog, role, cvars, replies, applied>>

-----------------------------------------------------------------------------
\* Shutdown (adabt-server/src/main.rs, Stopper, the end of serve)

signal ==
    /\ ~signalled /\ signalled' = TRUE
    /\ UNCHANGED <<stop, stage, backlog, active, thread, role, cvars, replies, applied>>

Unwoken == backlog
\* The flag, then one connection, because the accept is blocking.
Woken == Append(backlog, Wake)
stop_serving ==
    /\ signalled /\ ~stop /\ stop' = TRUE
    /\ backlog' = Woken
    /\ UNCHANGED <<signalled, stage, active, thread, role, cvars, replies, applied>>

serve_returns ==
    /\ stage = "draining" /\ active = 0
    /\ stage' = "returned"
    /\ UNCHANGED <<signalled, stop, backlog, active, thread, role, cvars, replies, applied>>

\* DRAIN_TIMEOUT has passed with connections still open.
drain_times_out ==
    /\ stage = "draining" /\ active > 0
    /\ stage' = "returned"
    /\ UNCHANGED <<signalled, stop, backlog, active, thread, role, cvars, replies, applied>>

\* main checkpoints and ends, and every thread with it.
exits ==
    /\ stage = "returned"
    /\ stage' = "exited"
    /\ UNCHANGED <<signalled, stop, backlog, active, thread, role, cvars, replies, applied>>

ServiceInit ==
    /\ signalled = FALSE /\ stop = FALSE /\ stage = "accepting"
    /\ backlog = <<>> /\ active = 0
    /\ thread = [c \in Conns |-> "none"]
    /\ role = [c \in Conns |-> NoRole]
    /\ wire = [c \in Conns |-> <<>>]
    /\ replies = [c \in Conns |-> <<>>]
    /\ client = [c \in Conns |-> [at |-> "new", asked |-> <<>>, waits |-> 0, told |-> {}]]
    /\ applied = {}

Accepts == accept_stops \/ accept_refuses \/ accept_spawns
Handles(c) ==
    starts(c) \/ stops_reading(c) \/ decode_fails(c) \/ decode(c) \/ refuse_or_log_in(c)
    \/ dispatch(c) \/ dispatch_panics(c) \/ reply(c) \/ reply_fails(c)
ShutsDown == stop_serving \/ serve_returns \/ drain_times_out \/ exits
Notices(c) == next_reply(c) \/ sees_close(c)

ServiceNext ==
    \/ \E c \in Conns : connect(c) \/ hang_up(c) \/ Notices(c) \/ Handles(c)
    \/ \E c \in Conns, kind \in Kinds : call(c, kind)
    \/ Accepts \/ signal \/ ShutsDown

\* The server's threads run, the timers fire and a Client blocked in a read
\* returns from it; nobody has to connect, call, hang up or send a signal.
ServiceFairness ==
    /\ WF_servervars(Accepts) /\ WF_servervars(ShutsDown)
    /\ \A c \in Conns : WF_servervars(Handles(c)) /\ WF_servervars(Notices(c))
ServiceSpec == ServiceInit /\ [][ServiceNext]_servervars /\ ServiceFairness

-----------------------------------------------------------------------------
\* Properties

\* Every variable has its type, and a thread in the middle of a request has
\* that request at the head of what it has read.
ServiceTypeOK ==
    /\ stage \in {"accepting", "draining", "returned", "exited"}
    /\ stage # "accepting" => stop
    /\ stop => signalled
    /\ thread \in [Conns -> Phases \cup {"none", "ended"}]
    /\ role \in [Conns -> {"admin", "reader", NoRole}]
    /\ \A c \in Conns : thread[c] \in {"serving", "replying", "failing"} => wire[c] # <<>>

\* The count the cap and the drain read is the number of threads, from the
\* accept to the end of each thread however it ends, and never above the cap
\* (server.rs:382-386).
CapHolds ==
    /\ active = Cardinality({c \in Conns : Running(c)})
    /\ active <= MaxOpen

\* A client's next reply is the one to the call it is in, and tells what the
\* engine did: ok of a write that was applied, a refusal of one that was not
\* (client.rs:66-71, server.rs:471-519).
RepliesTellTheTruth ==
    \A c \in Conns :
        /\ replies[c] # <<>> /\ Up(c) => Head(replies[c]).id = client[c].waits
        /\ \A r \in client[c].told :
              client[c].asked[r.id] \in WriteKinds => (r.status = "ok" <=> <<c, r.id>> \in applied)

\* Whatever the order of requests, what a connection was allowed it had earned:
\* a write, or a read of a walled collection, only after this connection gave
\* the admin token, and any answer of the engine only after one of the tokens
\* (server.rs:430-434, 471-514).
PrivilegesAreEarned ==
    \A c \in Conns :
        LET Gave(k, id) == \E j \in 1..(id - 1) : client[c].asked[j] = k
            Admin(id) == Tokens = {} \/ Gave("auth_admin", id)
            Known(id) == Admin(id) \/ ("reader" \in Tokens /\ Gave("auth_reader", id))
        IN  /\ \A id \in 1..MaxCalls : <<c, id>> \in applied => Admin(id)
            /\ \A r \in client[c].told :
                  r.status = "ok" /\ client[c].asked[r.id] \notin Logins
                    => IF client[c].asked[r.id] = "get_walled" THEN Admin(r.id) ELSE Known(r.id)

\* A signal ends the process, silent and busy clients notwithstanding
\* (server.rs:43-51, main.rs:224-245).
ShutdownEnds == signalled ~> stage = "exited"

\* Nobody waits for ever: each call is answered or its connection is seen to
\* be closed, refused, drained or cut off (server.rs:31-51).
CallsEnd == \A c \in Conns : client[c].waits > 0 ~> client[c].waits = 0 \/ client[c].at = "gone"

\* Every wait ends: the shutdown's, and each client's.
WaitsEnd == ShutdownEnds /\ CallsEnd

\* What the server's counts and its replies promise in every state.
ServiceInvariant == ServiceTypeOK /\ CapHolds /\ RepliesTellTheTruth

\* "by the time it returns, no connection thread is still running"
\* (server.rs:49-51): not when the drain has timed out.
NoThreadOutlivesServe == stage \in {"returned", "exited"} => \A c \in Conns : ~Running(c)

\* "Unreachable through respond: the auth gate handles Auth itself and never
\* forwards it here" (server.rs:570): respond does, once there is a role.
AuthIsNeverDispatched ==
    \A c \in Conns : thread[c] = "serving" /\ Verdict(role[c], Head(wire[c]).kind) = ""
                        => Head(wire[c]).kind \notin Logins
=============================================================================
