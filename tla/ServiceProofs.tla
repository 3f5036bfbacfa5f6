---------------------------- MODULE ServiceProofs ----------------------------
(***************************************************************************)
(* Theorems of Service, for any connections, cap, tokens and requests: the *)
(* count of threads, the types, what a reply says of a write and what a    *)
(* connection was allowed.  Each connection's part of the invariant speaks *)
(* of that connection only, so an action disturbs it for one of them.      *)
(***************************************************************************)
EXTENDS Service, FiniteSetTheorems, SequenceTheorems, TLAPS

-----------------------------------------------------------------------------
(* The inductive invariant *)

Requests == [id : Nat, kind : Kinds]
Statuses == {"ok", "error", "bad request", "unauthorized", "authentication failed", "forbidden"}
Answers == [id : Nat, status : Statuses]
Clients == [at : {"new", "open", "gone"}, asked : Seq(Kinds), waits : Nat, told : SUBSET Answers]

\* Types of what travels; ServiceTypeOK has those of the server's own variables.
Typed ==
    /\ backlog \in Seq(Conns \cup {Wake})
    /\ active \in Nat
    /\ thread \in [Conns -> Phases \cup {"none", "ended"}]
    /\ role \in [Conns -> {"admin", "reader", NoRole}]
    /\ wire \in [Conns -> Seq(Requests)]
    /\ replies \in [Conns -> Seq(Answers)]
    /\ client \in [Conns -> Clients]
    /\ applied \subseteq Conns \X Nat

\* The stages of a shutdown; the accept loop is left only once it is asked to stop.
Staged ==
    /\ signalled \in BOOLEAN /\ stop \in BOOLEAN
    /\ stage \in {"accepting", "draining", "returned", "exited"}
    /\ stage # "accepting" => stop
    /\ stop => signalled

\* A connection waits to be accepted at most once, and has no thread then.
Queued ==
    /\ \A i \in 1..Len(backlog) : backlog[i] \in Conns =>
          thread[backlog[i]] = "none" /\ client[backlog[i]].at # "new"
    /\ \A i, j \in 1..Len(backlog) : backlog[i] \in Conns /\ backlog[i] = backlog[j] => i = j
    /\ \A c \in Conns : client[c].at = "new" => thread[c] = "none"

\* The count is of the threads that run.
Counts ==
    /\ IsFiniteSet({c \in Conns : Running(c)})
    /\ active = Cardinality({c \in Conns : Running(c)})
    /\ active <= MaxOpen

Asked(c) == client[c].asked
Last(c) == Len(client[c].asked)
Pending(c) == [id |-> Last(c), kind |-> Asked(c)[Last(c)]]

\* One request or one reply is under way at a time, and it belongs to the last call.
OneCall(c) ==
    /\ client[c].waits \in {0, Last(c)}
    /\ wire[c] # <<>> => Last(c) > 0 /\ wire[c] = <<Pending(c)>> /\ replies[c] = <<>>
    /\ replies[c] # <<>> => Last(c) > 0 /\ Len(replies[c]) = 1 /\ replies[c][1].id = Last(c)
    /\ client[c].at # "gone" /\ client[c].waits = 0 => wire[c] = <<>> /\ replies[c] = <<>>
    /\ client[c].at = "new" => client[c].waits = 0
    /\ thread[c] \in {"serving", "replying", "failing"} => wire[c] # <<>>
    /\ \A r \in client[c].told :
          r.id \in 1..Last(c) /\ (wire[c] # <<>> \/ replies[c] # <<>> => r.id < Last(c))

\* What a reply says of a write is what happened to it.
Truthful(c, r) == Asked(c)[r.id] \in WriteKinds => (r.status = "ok" <=> <<c, r.id>> \in applied)

Truth(c) ==
    /\ \A r \in client[c].told : Truthful(c, r)
    /\ replies[c] # <<>> => Truthful(c, replies[c][1])
    /\ \A id \in Nat : <<c, id>> \in applied => id \in 1..Last(c)
    /\ wire[c] # <<>> /\ thread[c] \notin {"replying", "ended"} => <<c, Last(c)>> \notin applied
    /\ thread[c] = "replying" /\ Asked(c)[Last(c)] \in WriteKinds => <<c, Last(c)>> \in applied
    /\ thread[c] = "failing" => Asked(c)[Last(c)] \in WriteKinds

\* Tokens this connection gave before its request id.
Gave(c, k, id) == \E j \in 1..(id - 1) : Asked(c)[j] = k
Admin(c, id) == Tokens = {} \/ Gave(c, "auth_admin", id)
Known(c, id) == Admin(c, id) \/ ("reader" \in Tokens /\ Gave(c, "auth_reader", id))

\* The request a role may already be used for: the one on its way, or else the next.
Current(c) == IF wire[c] = <<>> THEN Last(c) + 1 ELSE Last(c)

\* What an answer of the engine presupposes.
Entitled(c, r) ==
    r.status = "ok" /\ Asked(c)[r.id] \notin Logins =>
        IF Asked(c)[r.id] = "get_walled" THEN Admin(c, r.id) ELSE Known(c, r.id)

Earned(c) ==
    /\ role[c] = "admin" => Admin(c, Current(c))
    /\ role[c] = "reader" => Known(c, Current(c))
    /\ thread[c] = "replying" =>
          /\ role[c] # NoRole /\ Asked(c)[Last(c)] \notin Logins
          /\ Asked(c)[Last(c)] = "get_walled" => role[c] = "admin"
    /\ \A id \in Nat : <<c, id>> \in applied => Admin(c, id)
    /\ \A r \in client[c].told : Entitled(c, r)
    /\ replies[c] # <<>> => Entitled(c, replies[c][1])

Exchange(c) == OneCall(c) /\ Truth(c) /\ Earned(c)

IInv ==
    /\ Typed /\ Staged /\ Queued /\ Counts
    /\ \A c \in Conns : Exchange(c)

-----------------------------------------------------------------------------
(* Lemmas about sequences and verdicts *)

\* A sequence with its first element taken off, by its indices.
LEMMA TailIndices ==
    ASSUME NEW S, NEW s \in Seq(S), s # <<>>
    PROVE  /\ Head(s) = s[1] /\ Head(s) \in S
           /\ Tail(s) \in Seq(S) /\ Len(Tail(s)) = Len(s) - 1 /\ Len(s) > 0
           /\ \A i \in 1..Len(Tail(s)) : Tail(s)[i] = s[i + 1]
  BY HeadTailProperties

\* A sequence with an element appended, by its indices.
LEMMA AppendIndices ==
    ASSUME NEW S, NEW s \in Seq(S), NEW x \in S
    PROVE  /\ Append(s, x) \in Seq(S) /\ Len(Append(s, x)) = Len(s) + 1
           /\ \A i \in 1..Len(s) : Append(s, x)[i] = s[i]
           /\ Append(s, x)[Len(s) + 1] = x
  BY AppendProperties

\* What respond lets through to the engine, and what it answers itself.
LEMMA VerdictFacts ==
    ASSUME NEW r \in {"admin", "reader", NoRole}, NEW kind
    PROVE  /\ Verdict(r, kind) \in Statuses \cup {""}
           /\ Verdict(r, kind) = "ok" => kind \in Logins
           /\ Verdict(r, kind) = "" => r # NoRole
           /\ Verdict(r, kind) = "" /\ kind \in WriteKinds \cup {"get_walled"} => r = "admin"
           /\ authenticate(kind) \in {"admin", "reader", NoRole}
           /\ authenticate(kind) = "admin" => kind = "auth_admin"
           /\ authenticate(kind) = "reader" => kind = "auth_reader" /\ "reader" \in Tokens
  BY ServiceAssumption DEF Verdict, authenticate, permits, at_least, Logins, WriteKinds, Statuses

\* More requests never take a right away.
LEMMA RightsGrow ==
    ASSUME NEW c, NEW i \in Nat, NEW j \in Nat, i <= j
    PROVE  (Admin(c, i) => Admin(c, j)) /\ (Known(c, i) => Known(c, j))
  BY DEF Admin, Known, Gave

-----------------------------------------------------------------------------
(* An exchange from one state to the next *)

\* A connection an action does not touch, or whose thread only moves on: it
\* starts, reads, takes up a request or ends.
LEMMA ThreadMoves ==
    ASSUME NEW c \in Conns, Typed, Exchange(c),
           client'[c] = client[c], wire'[c] = wire[c], replies'[c] = replies[c],
           \A id \in Nat : <<c, id>> \in applied' <=> <<c, id>> \in applied,
           role'[c] = role[c] \/ role'[c] = open_role,
           \/ thread'[c] = thread[c] /\ role'[c] = role[c]
           \/ thread'[c] = "ended"
           \/ /\ thread[c] \in {"none", "starting", "reading"}
              /\ thread'[c] \in {"starting", "reading", "serving"}
              /\ thread'[c] = "serving" => wire[c] # <<>>
    PROVE  Exchange(c)'
<1>1. OneCall(c)'
  BY DEF Exchange, OneCall, Last, Asked, Pending, Up
<1>2. Truth(c)'
  <2>1. Last(c)' = Last(c) /\ Asked(c)' = Asked(c) /\ Last(c) \in Nat
    BY DEF Last, Asked, Typed, Clients
  <2>2. ASSUME NEW r, r.id \in Nat, Truthful(c, r) PROVE Truthful(c, r)'
    BY <2>1, <2>2 DEF Truthful
  <2>3. \A r \in client[c].told : r.id \in Nat
    BY DEF Exchange, OneCall, Typed, Clients, Answers
  <2>4. replies[c] # <<>> => replies[c][1].id \in Nat
    BY <2>1 DEF Exchange, OneCall
  <2> QED
    BY <2>1, <2>2, <2>3, <2>4 DEF Exchange, Truth
<1>3. Earned(c)'
  <2>1. \A id \in Nat : (Admin(c, id)' <=> Admin(c, id)) /\ (Known(c, id)' <=> Known(c, id))
    BY DEF Admin, Known, Gave, Asked
  <2>2. Current(c)' = Current(c) /\ Current(c) \in Nat
    BY DEF Current, Last, Typed, Clients
  <2>3. role'[c] = open_role /\ role'[c] # role[c] => role'[c] = NoRole \/ Admin(c, Current(c))
    BY DEF open_role, Admin
  <2>4. ASSUME NEW r, r.id \in Nat, Entitled(c, r) PROVE Entitled(c, r)'
    BY <2>1, <2>4 DEF Entitled, Asked
  <2>5. /\ \A r \in client[c].told : r.id \in Nat
        /\ replies[c] # <<>> => replies[c][1].id \in Nat
        /\ Last(c) \in Nat /\ Last(c)' = Last(c) /\ Asked(c)' = Asked(c)
    BY DEF Exchange, OneCall, Typed, Clients, Answers, Last, Asked
  <2>6. /\ role'[c] = "admin" => Admin(c, Current(c))'
        /\ role'[c] = "reader" => Known(c, Current(c))'
    <3>1. /\ Admin(c, Current(c))' <=> Admin(c, Current(c))
          /\ Known(c, Current(c))' <=> Known(c, Current(c))
      BY <2>2 DEF Admin, Known, Gave, Asked
    <3> QED
      BY <3>1, <2>3, ServiceAssumption DEF Exchange, Earned, open_role, Known
  <2>7. /\ \A id \in Nat : <<c, id>> \in applied' => Admin(c, id)'
        /\ \A r \in client'[c].told : Entitled(c, r)'
        /\ replies'[c] # <<>> => Entitled(c, replies[c][1])'
    BY <2>1, <2>4, <2>5 DEF Exchange, Earned
  <2>8. thread'[c] = "replying" =>
            /\ role'[c] # NoRole /\ Asked(c)'[Last(c)'] \notin Logins
            /\ Asked(c)'[Last(c)'] = "get_walled" => role'[c] = "admin"
    BY <2>5 DEF Exchange, Earned
  <2> QED
    BY <2>6, <2>7, <2>8 DEF Earned
<1> QED
  BY <1>1, <1>2, <1>3 DEF Exchange

\* What the exchange of one connection reads, with the types it needs.
LEMMA ExchangeTypes ==
    ASSUME NEW c \in Conns, Typed, Exchange(c)
    PROVE  /\ Last(c) \in Nat /\ Asked(c) \in Seq(Kinds) /\ Len(Asked(c)) = Last(c)
           /\ wire[c] \in Seq(Requests) /\ replies[c] \in Seq(Answers)
           /\ wire[c] = <<>> => Current(c) = Last(c) + 1
           /\ wire[c] # <<>> => /\ Current(c) = Last(c) /\ Last(c) > 0
                                /\ Head(wire[c]) = Pending(c) /\ Tail(wire[c]) = <<>>
                                /\ Pending(c).id = Last(c) /\ Pending(c).kind = Asked(c)[Last(c)]
                                /\ Pending(c).kind \in Kinds /\ replies[c] = <<>>
           /\ replies[c] # <<>> => /\ Last(c) > 0 /\ Tail(replies[c]) = <<>> /\ wire[c] = <<>>
                                   /\ Head(replies[c]) = replies[c][1]
                                   /\ replies[c][1] \in Answers /\ replies[c][1].id = Last(c)
           /\ \A r \in client[c].told : r \in Answers /\ r.id \in 1..Last(c)
<1>1. /\ Last(c) \in Nat /\ Asked(c) \in Seq(Kinds) /\ Len(Asked(c)) = Last(c)
      /\ wire[c] \in Seq(Requests) /\ replies[c] \in Seq(Answers)
  BY DEF Typed, Clients, Last, Asked
<1>2. Pending(c).id = Last(c) /\ Pending(c).kind = Asked(c)[Last(c)]
  BY DEF Pending
<1>3. ASSUME wire[c] # <<>>
      PROVE  /\ Last(c) > 0 /\ replies[c] = <<>> /\ Asked(c)[Last(c)] \in Kinds
             /\ Head(wire[c]) = Pending(c) /\ Tail(wire[c]) = <<>>
  <2>1. Last(c) > 0 /\ wire[c] = <<Pending(c)>> /\ replies[c] = <<>>
    BY <1>3 DEF Exchange, OneCall
  <2>2. Asked(c)[Last(c)] \in Kinds
    BY <1>1, <2>1
  <2>3. \A x : Head(<<x>>) = x /\ Tail(<<x>>) = <<>>
    OBVIOUS
  <2> QED
    BY <2>1, <2>2, <2>3
<1>4. ASSUME replies[c] # <<>>
      PROVE  /\ Last(c) > 0 /\ Tail(replies[c]) = <<>> /\ wire[c] = <<>>
             /\ Head(replies[c]) = replies[c][1]
             /\ replies[c][1] \in Answers /\ replies[c][1].id = Last(c)
  <2>1. Last(c) > 0 /\ wire[c] = <<>> /\ replies[c][1].id = Last(c) /\ Len(replies[c]) = 1
    BY <1>4 DEF Exchange, OneCall
  <2>2. Tail(replies[c]) \in Seq(Answers) /\ Len(Tail(replies[c])) = 0
    BY <1>1, <1>4, <2>1, TailIndices
  <2> QED
    <3>1. Tail(replies[c]) = <<>>
      BY <2>2, EmptySeq
    <3> QED
      BY <1>1, <1>4, <2>1, <3>1, TailIndices
<1>5. \A r \in client[c].told : r \in Answers /\ r.id \in 1..Last(c)
  BY DEF Typed, Clients, Exchange, OneCall
<1> QED
  BY <1>1, <1>2, <1>3, <1>4, <1>5 DEF Current

\* The client sends the next request.
LEMMA CallExchanged ==
    ASSUME NEW c \in Conns, NEW kind \in Kinds, Typed, Exchange(c), call(c, kind)
    PROVE  Exchange(c)'
<1>1. /\ wire[c] = <<>> /\ replies[c] = <<>>
      /\ thread'[c] = thread[c] /\ role'[c] = role[c] /\ replies'[c] = <<>> /\ applied' = applied
  BY DEF call, Up, Exchange, OneCall
<1>2. /\ client'[c] = [client[c] EXCEPT !.asked = Append(Asked(c), kind), !.waits = Last(c) + 1]
      /\ wire'[c] = Append(<<>>, [id |-> Last(c) + 1, kind |-> kind])
  BY <1>1 DEF call, Typed, Asked, Last
<1>3. /\ Asked(c)' = Append(Asked(c), kind) /\ Last(c)' = Last(c) + 1
      /\ \A j \in 1..Last(c) : Asked(c)'[j] = Asked(c)[j]
      /\ Asked(c)'[Last(c) + 1] = kind
      /\ client'[c].waits = Last(c) + 1 /\ client'[c].told = client[c].told
      /\ client'[c].at = client[c].at
  <2>1. Asked(c)' = Append(Asked(c), kind)
    BY <1>2 DEF Asked, Typed, Clients
  <2> QED
    BY <1>2, <2>1, ExchangeTypes, AppendIndices DEF Typed, Clients, Last, Asked
<1>4. wire'[c] = <<Pending(c)'>> /\ wire'[c] # <<>>
  BY <1>2, <1>3 DEF Pending
<1>5. OneCall(c)'
  <2>1. thread[c] \notin {"serving", "replying", "failing"} /\ client[c].at = "open"
    BY <1>1 DEF Exchange, OneCall, call, Up
  <2>2. \A r \in client'[c].told : r.id \in 1..Last(c)' /\ r.id < Last(c)'
    BY <1>3, ExchangeTypes
  <2> QED
    BY <1>1, <1>3, <1>4, <2>1, <2>2, ExchangeTypes DEF OneCall, Up
<1>6. Truth(c)'
  <2>1. \A r \in client'[c].told : Truthful(c, r)'
    <3>1. ASSUME NEW r \in client[c].told PROVE Asked(c)'[r.id] = Asked(c)[r.id]
      BY <1>3, ExchangeTypes
    <3> QED
      BY <1>1, <1>3, <3>1 DEF Exchange, Truth, Truthful
  <2>2. \A id \in Nat : <<c, id>> \in applied' => id \in 1..Last(c)
    BY <1>1 DEF Exchange, Truth
  <2>3. thread[c] \notin {"replying", "failing"}
    BY <1>1 DEF Exchange, OneCall
  <2> QED
    BY <1>1, <1>3, <2>1, <2>2, <2>3, ExchangeTypes DEF Truth
<1>7. \A id \in 1..(Last(c) + 1) : (Admin(c, id)' <=> Admin(c, id)) /\ (Known(c, id)' <=> Known(c, id))
  <2>1. ASSUME NEW id \in 1..(Last(c) + 1), NEW j \in 1..(id - 1) PROVE Asked(c)'[j] = Asked(c)[j]
    BY <1>3, ExchangeTypes
  <2> QED
    BY <2>1 DEF Admin, Known, Gave
<1>8. Current(c) = Last(c) + 1 /\ Current(c)' = Last(c) + 1
  BY <1>1, <1>3, <1>4, ExchangeTypes DEF Current
<1>9. Earned(c)'
  <2>1. /\ role'[c] = "admin" => Admin(c, Current(c))'
        /\ role'[c] = "reader" => Known(c, Current(c))'
    <3>1. /\ Admin(c, Last(c) + 1) => Admin(c, Current(c))'
          /\ Known(c, Last(c) + 1) => Known(c, Current(c))'
      BY <1>7, <1>8, ExchangeTypes DEF Admin, Known, Gave
    <3> QED
      BY <3>1, <1>1, <1>8 DEF Exchange, Earned
  <2>2. \A id \in Nat : <<c, id>> \in applied' => Admin(c, id)'
    BY <1>1, <1>7, ExchangeTypes DEF Exchange, Truth, Earned
  <2>3. \A r \in client[c].told : Entitled(c, r)'
    BY <1>3, <1>7, ExchangeTypes DEF Exchange, Earned, Entitled
  <2>4. thread'[c] # "replying"
    BY <1>1 DEF Exchange, OneCall
  <2> QED
    BY <1>1, <1>3, <2>1, <2>2, <2>3, <2>4 DEF Earned
<1> QED
  BY <1>5, <1>6, <1>9 DEF Exchange

\* The client connects, reads its answer, hangs up or sees the close.
LEMMA ClientExchanged ==
    ASSUME NEW c \in Conns, Typed, Exchange(c),
           connect(c) \/ next_reply(c) \/ hang_up(c) \/ sees_close(c)
    PROVE  Exchange(c)'
<1>1. /\ thread'[c] = thread[c] /\ role'[c] = role[c] /\ wire'[c] = wire[c] /\ applied' = applied
      /\ replies'[c] = replies[c] \/ replies'[c] = <<>>
      /\ Asked(c)' = Asked(c) /\ Last(c)' = Last(c) /\ Pending(c)' = Pending(c)
      /\ Current(c)' = Current(c)
  <2>1. /\ thread'[c] = thread[c] /\ role'[c] = role[c] /\ wire'[c] = wire[c] /\ applied' = applied
        /\ replies'[c] = replies[c] \/ replies'[c] = <<>>
    BY ExchangeTypes DEF connect, next_reply, hang_up, sees_close, Typed
  <2>2. client'[c].asked = client[c].asked
    BY DEF connect, next_reply, hang_up, sees_close, Typed, Clients
  <2> QED
    BY <2>1, <2>2 DEF Asked, Last, Pending, Current
<1>2. \A r \in client'[c].told : r \in client[c].told \/ (replies[c] # <<>> /\ r = replies[c][1])
  <2>1. CASE next_reply(c)
    <3>1. client'[c].told = client[c].told \cup {Head(replies[c])} /\ replies[c] # <<>>
      BY <2>1 DEF next_reply, Typed, Clients
    <3> QED
      BY <3>1, ExchangeTypes
  <2>2. CASE connect(c) \/ hang_up(c) \/ sees_close(c)
    <3>1. client'[c].told = client[c].told
      BY <2>2 DEF connect, hang_up, sees_close, Typed, Clients
    <3> QED
      BY <3>1
  <2> QED
    BY <2>1, <2>2
<1>3. OneCall(c)'
  <2>1. CASE connect(c)
    BY <1>1, <2>1 DEF connect, Exchange, OneCall, Typed, Clients, Up
  <2>2. CASE next_reply(c)
    <3>1. replies'[c] = <<>> /\ client'[c].waits = 0 /\ wire'[c] = <<>> /\ client'[c].at = "open"
      BY <2>2, <1>1, ExchangeTypes DEF next_reply, Typed, Clients, Up
    <3>2. thread[c] \notin {"serving", "replying", "failing"}
      BY <2>2, ExchangeTypes DEF next_reply, Exchange, OneCall
    <3>3. \A r \in client'[c].told : r.id \in 1..Last(c)
      BY <1>2, ExchangeTypes
    <3> QED
      BY <1>1, <3>1, <3>2, <3>3, ExchangeTypes DEF OneCall, Up
  <2>3. CASE hang_up(c)
    BY <1>1, <2>3 DEF hang_up, Exchange, OneCall, Typed, Clients, Up
  <2>4. CASE sees_close(c)
    BY <1>1, <2>4 DEF sees_close, Exchange, OneCall, Typed, Clients, Up
  <2> QED
    BY <2>1, <2>2, <2>3, <2>4
<1>4. Truth(c)'
  BY <1>1, <1>2 DEF Exchange, Truth, Truthful
<1>5. Earned(c)'
  BY <1>1, <1>2 DEF Exchange, Earned, Entitled, Admin, Known, Gave
<1> QED
  BY <1>3, <1>4, <1>5 DEF Exchange

\* Answered without the engine: the reply is no write's, and a token given
\* here is one of the requests before the next.
LEMMA RefusalExchanged ==
    ASSUME NEW c \in Conns, Typed, Exchange(c), refuse_or_log_in(c)
    PROVE  Exchange(c)'
<1> DEFINE kind == Asked(c)[Last(c)]
           said == [id |-> Last(c), status |-> Verdict(role[c], kind)]
<1>1. /\ wire[c] # <<>> /\ replies[c] = <<>> /\ Head(wire[c]).id = Last(c)
      /\ Head(wire[c]).kind = kind /\ Last(c) > 0 /\ Last(c) \in Nat
  BY ExchangeTypes DEF refuse_or_log_in, Exchange, OneCall
<1>2. /\ thread'[c] = "reading" /\ wire'[c] = <<>> /\ replies'[c] = <<said>>
      /\ client'[c] = client[c] /\ applied' = applied
      /\ role'[c] = IF role[c] = NoRole /\ kind \in Logins THEN authenticate(kind) ELSE role[c]
      /\ Verdict(role[c], kind) # "" /\ thread[c] = "serving"
  <2>1. /\ Verdict(role[c], Head(wire[c]).kind) # "" /\ thread[c] = "serving"
        /\ role'[c] = IF role[c] = NoRole /\ Head(wire[c]).kind \in Logins
                      THEN authenticate(Head(wire[c]).kind) ELSE role[c]
        /\ replies'[c] = Append(replies[c], [id |-> Head(wire[c]).id,
                                             status |-> Verdict(role[c], Head(wire[c]).kind)])
        /\ wire'[c] = Tail(wire[c]) /\ thread'[c] = "reading" /\ client' = client /\ applied' = applied
    BY DEF refuse_or_log_in, Replies, Typed
  <2>2. Tail(wire[c]) = <<>>
    BY <1>1, ExchangeTypes
  <2>3. replies'[c] = Append(<<>>, said)
    BY <1>1, <2>1
  <2> HIDE DEF said
  <2>4. replies'[c] = <<said>>
    BY <2>3
  <2> QED
    BY <1>1, <2>1, <2>2, <2>4
<1>3. /\ Asked(c)' = Asked(c) /\ Last(c)' = Last(c) /\ Current(c) = Last(c) /\ Current(c)' = Last(c) + 1
      /\ replies'[c][1] = said /\ said.id = Last(c) /\ said.status = Verdict(role[c], kind)
      /\ Len(replies'[c]) = 1 /\ replies'[c] # <<>> /\ role[c] \in {"admin", "reader", NoRole}
  <2>1. /\ Asked(c)' = Asked(c) /\ Last(c)' = Last(c) /\ Current(c) = Last(c) /\ Current(c)' = Last(c) + 1
        /\ role[c] \in {"admin", "reader", NoRole}
    BY <1>1, <1>2 DEF Asked, Last, Current, Typed
  <2>2. said.id = Last(c) /\ said.status = Verdict(role[c], kind)
    OBVIOUS
  <2>3. \A x : <<x>>[1] = x /\ Len(<<x>>) = 1 /\ <<x>> # <<>>
    OBVIOUS
  <2>4. replies'[c][1] = said /\ Len(replies'[c]) = 1 /\ replies'[c] # <<>>
    BY <1>2, <2>3
  <2> QED
    BY <2>1, <2>2, <2>4
<1>4. OneCall(c)'
  BY <1>1, <1>2, <1>3, ExchangeTypes DEF Exchange, OneCall, Up
<1>5. kind \in WriteKinds => said.status # "ok" /\ <<c, Last(c)>> \notin applied
  <2>1. Verdict(role[c], kind) = "ok" => kind \in Logins
    BY <1>3, VerdictFacts
  <2>2. <<c, Last(c)>> \notin applied
    BY <1>1, <1>2 DEF Exchange, Truth
  <2> QED
    BY <1>3, <2>1, <2>2 DEF WriteKinds, Logins
<1>6. Truth(c)'
  <2>1. Truthful(c, replies[c][1])'
    BY <1>2, <1>3, <1>5 DEF Truthful
  <2> QED
    BY <1>2, <1>3, <2>1 DEF Exchange, Truth, Truthful
<1>7. Earned(c)'
  <2>1. \A id \in Nat : (Admin(c, id)' <=> Admin(c, id)) /\ (Known(c, id)' <=> Known(c, id))
    BY <1>3 DEF Admin, Known, Gave
  <2>2. /\ role'[c] = "admin" => Admin(c, Last(c) + 1)
        /\ role'[c] = "reader" => Known(c, Last(c) + 1)
    <3>1. CASE role[c] = NoRole /\ kind \in Logins
      <4>1. role'[c] = authenticate(kind)
        BY <1>2, <3>1
      <4>2. /\ role'[c] = "admin" => kind = "auth_admin"
            /\ role'[c] = "reader" => kind = "auth_reader" /\ "reader" \in Tokens
        BY <4>1, <1>3, VerdictFacts
      <4> QED
        BY <1>1, <4>2 DEF Admin, Known, Gave
    <3>2. CASE ~(role[c] = NoRole /\ kind \in Logins)
      <4>1. /\ role'[c] = "admin" => Admin(c, Last(c))
            /\ role'[c] = "reader" => Known(c, Last(c))
        BY <1>2, <1>3, <3>2 DEF Exchange, Earned
      <4> QED
        BY <1>1, <4>1, RightsGrow
    <3> QED
      BY <3>1, <3>2
  <2>3. Entitled(c, replies[c][1])'
    <3>1. Verdict(role[c], kind) = "ok" => kind \in Logins
      BY <1>3, VerdictFacts
    <3> QED
      BY <1>2, <1>3, <3>1 DEF Entitled
  <2>4. \A r \in client[c].told : Entitled(c, r)'
    BY <1>3, <2>1, ExchangeTypes DEF Exchange, Earned, Entitled, Answers
  <2>5. /\ role'[c] = "admin" => Admin(c, Current(c))'
        /\ role'[c] = "reader" => Known(c, Current(c))'
    BY <1>1, <1>3, <2>2 DEF Admin, Known, Gave
  <2> QED
    BY <1>2, <2>1, <2>3, <2>4, <2>5 DEF Exchange, Earned
<1> QED
  BY <1>4, <1>6, <1>7 DEF Exchange

\* The engine applies the write or returns its error.
LEMMA DispatchExchanged ==
    ASSUME NEW c \in Conns, Typed, Exchange(c), dispatch(c)
    PROVE  Exchange(c)'
<1> DEFINE kind == Asked(c)[Last(c)]
<1>1. /\ wire[c] # <<>> /\ replies[c] = <<>> /\ Head(wire[c]).id = Last(c)
      /\ Head(wire[c]).kind = kind /\ Last(c) > 0 /\ Last(c) \in Nat /\ Current(c) = Last(c)
  BY ExchangeTypes DEF dispatch, Exchange, OneCall
<1>2. /\ wire' = wire /\ replies' = replies /\ role' = role /\ client' = client
      /\ Verdict(role[c], kind) = "" /\ kind \notin Logins /\ thread[c] = "serving"
      /\ \/ /\ applied' = IF kind \in WriteKinds THEN applied \cup {<<c, Last(c)>>} ELSE applied
            /\ thread'[c] = "replying"
         \/ kind \in WriteKinds /\ thread'[c] = "failing" /\ applied' = applied
  BY <1>1 DEF dispatch, cvars, Typed
<1>3. Asked(c)' = Asked(c) /\ Last(c)' = Last(c) /\ Current(c)' = Last(c) /\ Pending(c)' = Pending(c)
  BY <1>1, <1>2 DEF Asked, Last, Current, Pending
<1>4. OneCall(c)'
  BY <1>1, <1>2, <1>3 DEF Exchange, OneCall, Up
<1>5. /\ \A id \in Nat : <<c, id>> \in applied' => <<c, id>> \in applied \/ (id = Last(c) /\ kind \in WriteKinds)
      /\ \A id \in Nat : id # Last(c) => (<<c, id>> \in applied' <=> <<c, id>> \in applied)
  BY <1>2
<1>6. Truth(c)'
  <2>1. \A r \in client[c].told : Truthful(c, r)'
    <3>1. ASSUME NEW r \in client[c].told PROVE r.id \in Nat /\ r.id # Last(c)
      BY <1>1, ExchangeTypes DEF Exchange, OneCall
    <3> QED
      BY <1>3, <1>5, <3>1 DEF Exchange, Truth, Truthful
  <2>2. <<c, Last(c)>> \notin applied
    BY <1>1, <1>2 DEF Exchange, Truth
  <2>3. \A id \in Nat : <<c, id>> \in applied' => id \in 1..Last(c)
    BY <1>1, <1>5 DEF Exchange, Truth
  <2> QED
    BY <1>1, <1>2, <1>3, <2>1, <2>2, <2>3 DEF Truth
<1>7. Earned(c)'
  <2>1. \A id \in Nat : (Admin(c, id)' <=> Admin(c, id)) /\ (Known(c, id)' <=> Known(c, id))
    BY <1>3 DEF Admin, Known, Gave
  <2>2. /\ kind \in WriteKinds \cup {"get_walled"} => role[c] = "admin"
        /\ role[c] # NoRole
    <3>1. role[c] \in {"admin", "reader", NoRole}
      BY DEF Typed
    <3> QED
      BY <1>2, <3>1, VerdictFacts
  <2>3. \A id \in Nat : <<c, id>> \in applied' => Admin(c, id)
    BY <1>1, <1>5, <2>2 DEF Exchange, Earned
  <2>4. \A r \in client[c].told : Entitled(c, r)'
    BY <1>3, <2>1, ExchangeTypes DEF Exchange, Earned, Entitled, Answers
  <2>5. /\ role'[c] = "admin" => Admin(c, Current(c))'
        /\ role'[c] = "reader" => Known(c, Current(c))'
    BY <1>1, <1>2, <1>3, <2>1 DEF Exchange, Earned, Admin, Known, Gave
  <2> QED
    BY <1>1, <1>2, <1>3, <2>1, <2>2, <2>3, <2>4, <2>5 DEF Exchange, Earned
<1> QED
  BY <1>4, <1>6, <1>7 DEF Exchange

\* The reply says what the engine returned.
LEMMA ReplyExchanged ==
    ASSUME NEW c \in Conns, Typed, Exchange(c), reply(c)
    PROVE  Exchange(c)'
<1> DEFINE kind == Asked(c)[Last(c)]
           said == [id |-> Last(c), status |-> IF thread[c] = "replying" THEN "ok" ELSE "error"]
<1>1. /\ wire[c] # <<>> /\ replies[c] = <<>> /\ Head(wire[c]).id = Last(c)
      /\ Last(c) > 0 /\ Last(c) \in Nat
  BY ExchangeTypes DEF reply, Exchange, OneCall
<1>2. /\ thread'[c] = "reading" /\ wire'[c] = <<>> /\ replies'[c] = <<said>>
      /\ client'[c] = client[c] /\ applied' = applied /\ role' = role
      /\ thread[c] \in {"replying", "failing"}
  <2>1. /\ thread[c] \in {"replying", "failing"}
        /\ replies'[c] = Append(replies[c], [id |-> Head(wire[c]).id,
                                             status |-> IF thread[c] = "replying" THEN "ok" ELSE "error"])
        /\ wire'[c] = Tail(wire[c]) /\ thread'[c] = "reading" /\ client' = client /\ applied' = applied
        /\ role' = role
    BY DEF reply, Replies, Typed
  <2>2. Tail(wire[c]) = <<>>
    BY <1>1, ExchangeTypes
  <2> QED
    BY <1>1, <2>1, <2>2
<1>3. /\ Asked(c)' = Asked(c) /\ Last(c)' = Last(c) /\ Current(c) = Last(c) /\ Current(c)' = Last(c) + 1
      /\ replies'[c][1] = said /\ said.id = Last(c)
      /\ said.status = IF thread[c] = "replying" THEN "ok" ELSE "error"
      /\ Len(replies'[c]) = 1 /\ replies'[c] # <<>>
  BY <1>1, <1>2 DEF Asked, Last, Current
<1>4. OneCall(c)'
  BY <1>1, <1>2, <1>3, ExchangeTypes DEF Exchange, OneCall, Up
<1>5. Truth(c)'
  <2>1. Truthful(c, replies[c][1])'
    BY <1>1, <1>2, <1>3 DEF Exchange, Truth, Truthful
  <2> QED
    BY <1>2, <1>3, <2>1 DEF Exchange, Truth, Truthful
<1>6. Earned(c)'
  <2>1. \A id \in Nat : (Admin(c, id)' <=> Admin(c, id)) /\ (Known(c, id)' <=> Known(c, id))
    BY <1>3 DEF Admin, Known, Gave
  <2>2. /\ role[c] = "admin" => Admin(c, Last(c)) /\ Admin(c, Last(c) + 1)
        /\ role[c] = "reader" => Known(c, Last(c)) /\ Known(c, Last(c) + 1)
    BY <1>1, <1>3, RightsGrow DEF Exchange, Earned
  <2>3. Entitled(c, replies[c][1])'
    <3>1. thread[c] = "replying" =>
            IF kind = "get_walled" THEN Admin(c, Last(c)) ELSE Known(c, Last(c))
      BY <2>2 DEF Typed, Exchange, Earned, Known
    <3> QED
      BY <1>1, <1>2, <1>3, <2>1, <3>1 DEF Entitled
  <2>4. \A r \in client[c].told : Entitled(c, r)'
    BY <1>3, <2>1, ExchangeTypes DEF Exchange, Earned, Entitled, Answers
  <2>5. /\ role'[c] = "admin" => Admin(c, Current(c))'
        /\ role'[c] = "reader" => Known(c, Current(c))'
    BY <1>1, <1>2, <1>3, <2>2 DEF Admin, Known, Gave
  <2> QED
    BY <1>2, <2>1, <2>3, <2>4, <2>5 DEF Exchange, Earned
<1> QED
  BY <1>4, <1>5, <1>6 DEF Exchange

-----------------------------------------------------------------------------
(* The server's own state *)

\* The types of every variable.
LEMMA TypedStep ==
    ASSUME IInv, ServiceNext
    PROVE  Typed'
<1> USE DEF Phases
<1>1. \A c \in Conns : wire[c] # <<>> =>
            /\ Head(wire[c]) \in Requests /\ Tail(wire[c]) \in Seq(Requests)
  BY TailIndices DEF IInv, Typed
<1>2. \A c \in Conns : replies[c] # <<>> =>
            /\ Head(replies[c]) \in Answers /\ Tail(replies[c]) \in Seq(Answers)
  BY TailIndices DEF IInv, Typed
<1>3. \A c \in Conns : thread[c] \in {"serving", "replying", "failing"} => wire[c] # <<>>
  BY DEF IInv, Exchange, OneCall
<1>4. \A c \in Conns : Running(c) => active - 1 \in Nat
  <2> SUFFICES ASSUME NEW c \in Conns, Running(c) PROVE active - 1 \in Nat
    OBVIOUS
  <2> DEFINE R == {d \in Conns : Running(d)}
  <2>1. IsFiniteSet(R) /\ active = Cardinality(R) /\ c \in R
    BY DEF IInv, Counts
  <2>2. Cardinality(R) # 0
    BY <2>1, FS_EmptySet
  <2> QED
    BY <2>1, <2>2 DEF IInv, Typed
<1>5. \A id, status : id \in Nat /\ status \in Statuses =>
            [id |-> id, status |-> status] \in Answers
  BY DEF Answers
<1>6. ASSUME NEW c \in Conns, connect(c) PROVE Typed'
  <2>1. backlog' \in Seq(Conns \cup {Wake})
    BY <1>6, AppendIndices DEF connect, IInv, Typed
  <2>2. client' \in [Conns -> Clients]
    BY <1>6 DEF connect, IInv, Typed, Clients
  <2> QED
    BY <1>6, <2>1, <2>2 DEF connect, IInv, Typed
<1>7. ASSUME NEW c \in Conns, hang_up(c) \/ sees_close(c) PROVE Typed'
  <2>1. client' \in [Conns -> Clients]
    <3>1. CASE hang_up(c)
      BY <3>1 DEF hang_up, IInv, Typed, Clients
    <3>2. CASE sees_close(c)
      <4>1. [client[c] EXCEPT !.at = "gone", !.waits = 0] \in Clients
        BY DEF IInv, Typed, Clients
      <4>2. client' = [client EXCEPT ![c] = [client[c] EXCEPT !.at = "gone", !.waits = 0]]
        BY <3>2 DEF sees_close, IInv, Typed
      <4> QED
        BY <4>1, <4>2 DEF IInv, Typed
    <3> QED
      BY <1>7, <3>1, <3>2
  <2> QED
    BY <1>7, <2>1 DEF hang_up, sees_close, IInv, Typed
<1>8. ASSUME NEW c \in Conns, next_reply(c) PROVE Typed'
  <2>1. client' \in [Conns -> Clients]
    BY <1>2, <1>8 DEF next_reply, IInv, Typed, Clients
  <2>2. replies' \in [Conns -> Seq(Answers)]
    BY <1>2, <1>8 DEF next_reply, IInv, Typed
  <2> QED
    BY <1>8, <2>1, <2>2 DEF next_reply, IInv, Typed
<1>9. ASSUME NEW c \in Conns, NEW kind \in Kinds, call(c, kind) PROVE Typed'
  <2>1. Len(client[c].asked) + 1 \in Nat /\ Append(client[c].asked, kind) \in Seq(Kinds)
    BY AppendIndices DEF IInv, Typed, Clients
  <2>2. client' \in [Conns -> Clients]
    BY <1>9, <2>1 DEF call, IInv, Typed, Clients
  <2>3. [id |-> Len(client[c].asked) + 1, kind |-> kind] \in Requests
    BY <2>1 DEF Requests
  <2>4. wire' \in [Conns -> Seq(Requests)]
    BY <1>9, <2>3, AppendIndices DEF call, IInv, Typed
  <2> QED
    BY <1>9, <2>2, <2>4 DEF call, IInv, Typed
<1>10. ASSUME Accepts PROVE Typed'
  <2>1. backlog # <<>> /\ backlog' = Tail(backlog) /\ accept_next \in Conns \cup {Wake}
        /\ Tail(backlog) \in Seq(Conns \cup {Wake})
    BY <1>10, TailIndices DEF Accepts, accept_stops, accept_refuses, accept_spawns, accept_next, IInv, Typed
  <2>2. open_role \in {"admin", "reader", NoRole}
    BY DEF open_role
  <2>3. thread' \in [Conns -> Phases \cup {"none", "ended"}]
    BY <1>10, <2>1 DEF Accepts, accept_stops, accept_refuses, accept_spawns, IInv, Typed
  <2>4. role' \in [Conns -> {"admin", "reader", NoRole}]
    BY <1>10, <2>1, <2>2 DEF Accepts, accept_stops, accept_refuses, accept_spawns, IInv, Typed
  <2>5. active' \in Nat
    BY <1>10 DEF Accepts, accept_stops, accept_refuses, accept_spawns, Counted, mvars, IInv, Typed
  <2> QED
    BY <1>10, <2>1, <2>3, <2>4, <2>5
    DEF Accepts, accept_stops, accept_refuses, accept_spawns, cvars, IInv, Typed
<1>11. ASSUME NEW c \in Conns, starts(c) \/ decode(c) PROVE Typed'
  BY <1>11 DEF starts, decode, cvars, IInv, Typed
<1>12. ASSUME NEW c \in Conns, stops_reading(c) \/ decode_fails(c) \/ dispatch_panics(c) \/ reply_fails(c)
       PROVE  Typed'
  <2>1. active' \in Nat
    BY <1>4, <1>12 DEF stops_reading, decode_fails, dispatch_panics, reply_fails, ends, Uncounted, Lives
  <2> QED
    BY <1>12, <2>1
    DEF stops_reading, decode_fails, dispatch_panics, reply_fails, ends, cvars, IInv, Typed
<1>13. ASSUME NEW c \in Conns, refuse_or_log_in(c) PROVE Typed'
  <2>1. role[c] \in {"admin", "reader", NoRole} /\ Head(wire[c]) \in Requests
    BY <1>1, <1>3, <1>13 DEF refuse_or_log_in, IInv, Typed
  <2>2. /\ Verdict(role[c], Head(wire[c]).kind) \in Statuses
        /\ authenticate(Head(wire[c]).kind) \in {"admin", "reader", NoRole}
    BY <1>13, <2>1, VerdictFacts DEF refuse_or_log_in
  <2>3. [id |-> Head(wire[c]).id, status |-> Verdict(role[c], Head(wire[c]).kind)] \in Answers
    BY <2>1, <2>2 DEF Answers, Requests
  <2>4. replies' \in [Conns -> Seq(Answers)]
    BY <1>13, <2>3, AppendIndices DEF refuse_or_log_in, Replies, IInv, Typed
  <2>5. role' \in [Conns -> {"admin", "reader", NoRole}]
    BY <1>13, <2>2 DEF refuse_or_log_in, IInv, Typed
  <2> QED
    BY <1>1, <1>3, <1>13, <2>4, <2>5 DEF refuse_or_log_in, IInv, Typed
<1>14. ASSUME NEW c \in Conns, dispatch(c) PROVE Typed'
  <2>1. Head(wire[c]).id \in Nat
    BY <1>1, <1>3, <1>14 DEF dispatch, Requests
  <2>2. applied' \subseteq Conns \X Nat
    <3>1. applied' \subseteq applied \cup {<<c, Head(wire[c]).id>>}
      BY <1>14 DEF dispatch
    <3> QED
      BY <2>1, <3>1 DEF IInv, Typed
  <2>3. thread' \in [Conns -> Phases \cup {"none", "ended"}]
    BY <1>14 DEF dispatch, IInv, Typed
  <2> QED
    BY <1>14, <2>2, <2>3 DEF dispatch, cvars, IInv, Typed
<1>15. ASSUME NEW c \in Conns, reply(c) PROVE Typed'
  <2>1. [id |-> Head(wire[c]).id, status |-> IF thread[c] = "replying" THEN "ok" ELSE "error"] \in Answers
    BY <1>1, <1>3, <1>15 DEF reply, Answers, Requests, Statuses
  <2>2. replies' \in [Conns -> Seq(Answers)]
    BY <1>15, <2>1, AppendIndices DEF reply, Replies, IInv, Typed
  <2> QED
    BY <1>1, <1>3, <1>15, <2>2 DEF reply, IInv, Typed
<1>16. ASSUME signal \/ serve_returns \/ drain_times_out \/ exits PROVE Typed'
  BY <1>16 DEF signal, serve_returns, drain_times_out, exits, cvars, IInv, Typed
<1>17. ASSUME stop_serving PROVE Typed'
  BY <1>17, AppendIndices DEF stop_serving, Woken, cvars, IInv, Typed
<1> QED
  BY <1>6, <1>7, <1>8, <1>9, <1>10, <1>11, <1>12, <1>13, <1>14, <1>15, <1>16, <1>17
  DEF ServiceNext, Notices, Handles, ShutsDown

\* The stages of a shutdown.
LEMMA StagedStep ==
    ASSUME IInv, ServiceNext
    PROVE  Staged'
<1>1. ASSUME NEW c \in Conns, connect(c) \/ hang_up(c) \/ Notices(c) \/ Handles(c)
      PROVE  UNCHANGED mvars
  <2>1. CASE connect(c) \/ hang_up(c) \/ Notices(c)
    BY <2>1 DEF Notices, connect, hang_up, next_reply, sees_close
  <2>2. CASE Handles(c)
    BY <2>2 DEF Handles, starts, stops_reading, decode_fails, decode, refuse_or_log_in, dispatch,
       dispatch_panics, reply, reply_fails
  <2> QED
    BY <1>1, <2>1, <2>2
<1>2. ASSUME NEW c \in Conns, NEW kind \in Kinds, call(c, kind) PROVE UNCHANGED mvars
  BY <1>2 DEF call
<1>3. CASE UNCHANGED mvars
  BY <1>3 DEF IInv, Staged, mvars
<1>4. CASE Accepts
  BY <1>4 DEF IInv, Staged, Accepts, accept_stops, accept_refuses, accept_spawns, mvars
<1>5. CASE signal \/ stop_serving
  BY <1>5 DEF IInv, Staged, signal, stop_serving
<1>6. CASE serve_returns \/ drain_times_out \/ exits
  BY <1>6 DEF IInv, Staged, serve_returns, drain_times_out, exits
<1> QED
  BY <1>1, <1>2, <1>3, <1>4, <1>5, <1>6 DEF ServiceNext, ShutsDown

\* Who waits to be accepted has no thread.
LEMMA QueuedStep ==
    ASSUME IInv, ServiceNext
    PROVE  Queued'
<1>1. CASE \E c \in Conns : connect(c)
  <2> PICK c \in Conns : connect(c)
    BY <1>1
  <2>1. /\ client[c].at = "new" /\ thread' = thread /\ thread[c] = "none"
        /\ backlog' = Append(backlog, c) /\ Len(backlog') = Len(backlog) + 1 /\ Len(backlog) \in Nat
        /\ \A i \in 1..Len(backlog) : backlog'[i] = backlog[i]
        /\ backlog'[Len(backlog) + 1] = c
    BY AppendIndices DEF connect, IInv, Typed, Queued
  <2>2. /\ \A d \in Conns : d # c => client'[d] = client[d]
        /\ client'[c].at = "open"
    BY DEF connect, IInv, Typed, Clients
  <2>3. \A i \in 1..Len(backlog) : backlog[i] # c
    BY <2>1 DEF IInv, Queued
  <2> QED
    BY <2>1, <2>2, <2>3 DEF IInv, Queued
<1>2. CASE \E c \in Conns : hang_up(c) \/ Notices(c)
  <2> PICK c \in Conns : hang_up(c) \/ Notices(c)
    BY <1>2
  <2>1. /\ backlog' = backlog /\ thread' = thread
        /\ client[c].at = "open" /\ \A d \in Conns \ {c} : client'[d] = client[d]
    BY DEF hang_up, Notices, next_reply, sees_close, Up, IInv, Typed
  <2>2. client'[c].at \in {"open", "gone"}
    BY DEF hang_up, Notices, next_reply, sees_close, Up, IInv, Typed, Clients
  <2> QED
    BY <2>1, <2>2 DEF IInv, Queued
<1>3. CASE \E c \in Conns : Handles(c)
  <2> PICK c \in Conns : Handles(c)
    BY <1>3
  <2>1. /\ backlog' = backlog /\ client' = client /\ thread[c] # "none"
        /\ \A d \in Conns \ {c} : thread'[d] = thread[d]
    BY DEF Handles, starts, stops_reading, decode_fails, decode, refuse_or_log_in, dispatch, dispatch_panics,
       reply, reply_fails, ends, cvars, IInv, Typed
  <2> QED
    BY <2>1 DEF IInv, Queued
<1>4. CASE \E c \in Conns, kind \in Kinds : call(c, kind)
  <2> PICK c \in Conns, kind \in Kinds : call(c, kind)
    BY <1>4
  <2>1. /\ backlog' = backlog /\ thread' = thread
        /\ \A d \in Conns : client'[d].at = client[d].at
    BY DEF call, IInv, Typed, Clients
  <2> QED
    BY <2>1 DEF IInv, Queued
<1>5. CASE Accepts
  <2>1. /\ backlog # <<>> /\ backlog' = Tail(backlog) /\ client' = client
        /\ accept_next \in Conns => \A d \in Conns : d # accept_next => thread'[d] = thread[d]
        /\ accept_next \notin Conns => thread' = thread
    BY <1>5, TailIndices, ServiceAssumption
    DEF Accepts, accept_stops, accept_refuses, accept_spawns, accept_next, cvars, IInv, Typed
  <2>2. /\ accept_next = backlog[1] /\ Len(backlog') = Len(backlog) - 1 /\ Len(backlog) \in Nat \ {0}
        /\ \A i \in 1..Len(backlog') : backlog'[i] = backlog[i + 1]
    BY <2>1, TailIndices DEF accept_next, IInv, Typed
  <2>3. \A i \in 1..Len(backlog') : backlog'[i] \in Conns => backlog'[i] # accept_next
    BY <2>2 DEF IInv, Queued
  <2>4. accept_next \in Conns => client[accept_next].at # "new"
    BY <2>2 DEF IInv, Queued
  <2> QED
    BY <2>1, <2>2, <2>3, <2>4 DEF IInv, Queued
<1>6. CASE signal \/ serve_returns \/ drain_times_out \/ exits
  BY <1>6 DEF signal, serve_returns, drain_times_out, exits, cvars, IInv, Queued
<1>7. CASE stop_serving
  <2>1. /\ thread' = thread /\ client' = client
        /\ Len(backlog') = Len(backlog) + 1 /\ Len(backlog) \in Nat
        /\ \A i \in 1..Len(backlog) : backlog'[i] = backlog[i]
        /\ backlog'[Len(backlog) + 1] = Wake
    BY <1>7, AppendIndices DEF stop_serving, Woken, cvars, IInv, Typed
  <2> QED
    BY <2>1, ServiceAssumption DEF IInv, Queued
<1> QED
  BY <1>1, <1>2, <1>3, <1>4, <1>5, <1>6, <1>7 DEF ServiceNext, ShutsDown

\* The count goes up with the thread it is for and comes down however that ends.
LEMMA CountsStep ==
    ASSUME IInv, ServiceNext
    PROVE  Counts'
<1> DEFINE R == {c \in Conns : Running(c)}
<1>1. IsFiniteSet(R) /\ active = Cardinality(R) /\ active <= MaxOpen /\ active \in Nat
  BY DEF IInv, Counts, Typed
<1>2. ASSUME active' = active, \A c \in Conns : Running(c)' <=> Running(c) PROVE Counts'
  BY <1>1, <1>2 DEF Counts
<1>3. ASSUME NEW c \in Conns, Running(c), ends(c) PROVE Counts'
  <2>1. R' = R \ {c} /\ c \in R
    BY <1>3 DEF ends, Running, Phases, IInv, Typed
  <2>2. IsFiniteSet(R') /\ Cardinality(R') = Cardinality(R) - 1
    BY <1>1, <2>1, FS_RemoveElement
  <2> QED
    BY <1>1, <1>3, <2>2, ServiceAssumption DEF ends, Uncounted, Counts
<1>4. CASE accept_spawns
  <2>1. accept_next \in Conns
    BY <1>4, TailIndices DEF accept_spawns, accept_next, IInv, Typed
  <2>2. thread[accept_next] = "none"
    BY <1>4, <2>1, TailIndices DEF accept_spawns, accept_next, IInv, Typed, Queued
  <2>3. R' = R \cup {accept_next} /\ accept_next \notin R
    BY <1>4, <2>1, <2>2 DEF accept_spawns, Running, Phases, IInv, Typed
  <2>4. IsFiniteSet(R') /\ Cardinality(R') = Cardinality(R) + 1
    <3>1. \A x : x \notin R => /\ IsFiniteSet(R \cup {x})
                               /\ Cardinality(R \cup {x}) = Cardinality(R) + 1
      BY <1>1, FS_AddElement
    <3> HIDE DEF R
    <3> QED
      BY <2>3, <3>1
  <2> QED
    BY <1>1, <1>4, <2>4, ServiceAssumption DEF accept_spawns, Counted, Counts
<1>5. CASE accept_stops \/ accept_refuses
  <2>1. accept_next \in Conns => thread[accept_next] = "none"
    BY <1>5, TailIndices DEF accept_stops, accept_refuses, accept_next, IInv, Typed, Queued
  <2>2. \A c \in Conns : Running(c)' <=> Running(c)
    BY <1>5, <2>1 DEF accept_stops, accept_refuses, Running, Phases, IInv, Typed
  <2> QED
    BY <1>2, <1>5, <2>2 DEF accept_stops, accept_refuses
<1>6. CASE \E c \in Conns : connect(c) \/ hang_up(c) \/ Notices(c)
  <2>1. UNCHANGED <<active, thread>>
    BY <1>6 DEF connect, hang_up, Notices, next_reply, sees_close
  <2> QED
    BY <1>2, <2>1 DEF Running
<1>7. CASE \E c \in Conns, kind \in Kinds : call(c, kind)
  BY <1>2, <1>7 DEF call, Running
<1>8. CASE signal \/ ShutsDown
  <2>1. UNCHANGED <<active, thread>>
    BY <1>8 DEF signal, ShutsDown, stop_serving, serve_returns, drain_times_out, exits
  <2> QED
    BY <1>2, <2>1 DEF Running
<1>9. ASSUME NEW c \in Conns, Handles(c) PROVE Counts'
  <2>1. CASE stops_reading(c) \/ decode_fails(c) \/ dispatch_panics(c) \/ reply_fails(c)
    BY <1>3, <2>1 DEF stops_reading, decode_fails, dispatch_panics, reply_fails, Lives
  <2>2. CASE starts(c) \/ decode(c) \/ refuse_or_log_in(c) \/ dispatch(c) \/ reply(c)
    <3>1. /\ active' = active /\ \A d \in Conns \ {c} : thread'[d] = thread[d]
          /\ Running(c) /\ Running(c)'
      BY <2>2 DEF starts, decode, refuse_or_log_in, dispatch, reply, Lives, Running, Phases, IInv, Typed
    <3> QED
      BY <1>2, <3>1 DEF Running
  <2> QED
    BY <1>9, <2>1, <2>2 DEF Handles
<1> QED
  BY <1>4, <1>5, <1>6, <1>7, <1>8, <1>9 DEF ServiceNext, Accepts

\* An action is about one connection, or about none.
LEMMA ExchangeStep ==
    ASSUME IInv, ServiceNext, NEW d \in Conns
    PROVE  Exchange(d)'
<1> USE DEF IInv
<1>1. ASSUME UNCHANGED <<thread, role, wire, replies, client, applied>> PROVE Exchange(d)'
  BY <1>1, ThreadMoves
<1>2. ASSUME NEW c \in Conns, connect(c) \/ hang_up(c) \/ Notices(c) PROVE Exchange(d)'
  <2>1. CASE d = c
    BY <1>2, <2>1, ClientExchanged DEF Notices
  <2>2. CASE d # c
    <3>1. /\ client'[d] = client[d] /\ replies'[d] = replies[d]
          /\ UNCHANGED <<thread, role, wire, applied>>
      BY <1>2, <2>2 DEF connect, hang_up, Notices, next_reply, sees_close, Typed
    <3> QED
      BY <3>1, ThreadMoves
  <2> QED
    BY <2>1, <2>2
<1>3. ASSUME NEW c \in Conns, NEW kind \in Kinds, call(c, kind) PROVE Exchange(d)'
  <2>1. CASE d = c
    BY <1>3, <2>1, CallExchanged
  <2>2. CASE d # c
    <3>1. /\ client'[d] = client[d] /\ wire'[d] = wire[d]
          /\ UNCHANGED <<thread, role, replies, applied>>
      BY <1>3, <2>2 DEF call, Typed
    <3> QED
      BY <3>1, ThreadMoves
  <2> QED
    BY <2>1, <2>2
<1>4. CASE Accepts
  <2>1. /\ UNCHANGED <<wire, replies, client, applied>>
        /\ role'[d] = role[d] \/ role'[d] = open_role
    BY <1>4 DEF Accepts, accept_stops, accept_refuses, accept_spawns, cvars, Typed
  <2>2. backlog # <<>> /\ accept_next \in Conns /\ d = accept_next => thread[d] = "none"
    BY TailIndices DEF accept_next, Typed, Queued
  <2>3. \/ thread'[d] = thread[d] /\ role'[d] = role[d]
        \/ thread'[d] = "ended"
        \/ thread[d] = "none" /\ thread'[d] = "starting"
    BY <1>4, <2>2, TailIndices DEF Accepts, accept_stops, accept_refuses, accept_spawns, accept_next, Typed
  <2> QED
    BY <2>1, <2>3, ThreadMoves
<1>5. ASSUME NEW c \in Conns, Handles(c) PROVE Exchange(d)'
  <2>1. CASE refuse_or_log_in(c) \/ dispatch(c) \/ reply(c)
    <3>1. CASE d = c
      BY <2>1, <3>1, RefusalExchanged, DispatchExchanged, ReplyExchanged
    <3>2. CASE d # c
      <4>1. /\ client'[d] = client[d] /\ wire'[d] = wire[d] /\ replies'[d] = replies[d]
            /\ thread'[d] = thread[d] /\ role'[d] = role[d]
        BY <2>1, <3>2 DEF refuse_or_log_in, dispatch, reply, Replies, cvars, Typed
      <4>2. \A id \in Nat : <<d, id>> \in applied' <=> <<d, id>> \in applied
        BY <2>1, <3>2 DEF refuse_or_log_in, dispatch, reply
      <4> QED
        BY <4>1, <4>2, ThreadMoves
    <3> QED
      BY <3>1, <3>2
  <2>2. CASE starts(c) \/ stops_reading(c) \/ decode_fails(c) \/ decode(c) \/ dispatch_panics(c) \/ reply_fails(c)
    <3>1. UNCHANGED <<role, wire, replies, client, applied>>
      BY <2>2 DEF starts, stops_reading, decode_fails, decode, dispatch_panics, reply_fails, cvars
    <3>2. \/ thread'[d] = thread[d]
          \/ thread'[d] = "ended"
          \/ /\ thread[d] \in {"starting", "reading"} /\ thread'[d] \in {"reading", "serving"}
             /\ thread'[d] = "serving" => wire[d] # <<>>
      BY <2>2 DEF starts, stops_reading, decode_fails, decode, dispatch_panics, reply_fails, ends, Typed
    <3> QED
      BY <3>1, <3>2, ThreadMoves
  <2> QED
    BY <1>5, <2>1, <2>2 DEF Handles
<1>6. CASE signal \/ ShutsDown
  BY <1>1, <1>6 DEF signal, ShutsDown, stop_serving, serve_returns, drain_times_out, exits, cvars
<1> QED
  BY <1>2, <1>3, <1>4, <1>5, <1>6 DEF ServiceNext

\* The invariant holds of a server nobody has connected to.
LEMMA InitIInv == ServiceInit => IInv
<1> SUFFICES ASSUME ServiceInit PROVE IInv
  OBVIOUS
<1>1. Typed
  <2>1. <<>> \in Seq(Conns \cup {Wake}) /\ <<>> \in Seq(Requests) /\ <<>> \in Seq(Answers) /\ <<>> \in Seq(Kinds)
    OBVIOUS
  <2>2. [at |-> "new", asked |-> <<>>, waits |-> 0, told |-> {}] \in Clients
    BY <2>1 DEF Clients
  <2> QED
    BY <2>1, <2>2 DEF ServiceInit, Typed
<1>2. Staged /\ Queued
  <2>1. Len(backlog) = 0 /\ \A c \in Conns : thread[c] = "none"
    BY DEF ServiceInit
  <2>2. Queued
    BY <2>1 DEF Queued
  <2> QED
    BY <2>2 DEF ServiceInit, Staged
<1>3. Counts
  <2>1. {c \in Conns : Running(c)} = {}
    BY DEF ServiceInit, Running, Phases
  <2> QED
    <3>1. IsFiniteSet({}) /\ Cardinality({}) = 0
      BY FS_EmptySet
    <3>2. active = 0 /\ MaxOpen \in Nat
      BY ServiceAssumption DEF ServiceInit
    <3> QED
      BY <2>1, <3>1, <3>2 DEF Counts
<1>4. ASSUME NEW c \in Conns PROVE Exchange(c)
  <2>1. /\ client[c].asked = <<>> /\ client[c].waits = 0 /\ client[c].told = {} /\ client[c].at = "new"
        /\ wire[c] = <<>> /\ replies[c] = <<>> /\ thread[c] = "none" /\ role[c] = NoRole /\ applied = {}
    BY DEF ServiceInit
  <2> QED
    BY <2>1, ServiceAssumption DEF Exchange, OneCall, Truth, Earned, Last, Asked, Up
<1> QED
  BY <1>1, <1>2, <1>3, <1>4 DEF IInv

\* Every step of a session, the server or its end keeps the invariant.
LEMMA NextIInv == IInv /\ [ServiceNext]_servervars => IInv'
<1> SUFFICES ASSUME IInv, [ServiceNext]_servervars PROVE IInv'
  OBVIOUS
<1>1. CASE ServiceNext
  BY <1>1, TypedStep, StagedStep, QueuedStep, CountsStep, ExchangeStep DEF IInv
<1>2. CASE UNCHANGED servervars
  <2>1. Typed' /\ Staged' /\ Queued'
    BY <1>2 DEF servervars, IInv, Typed, Staged, Queued
  <2>2. Counts'
    BY <1>2 DEF servervars, IInv, Counts, Running
  <2>3. ASSUME NEW c \in Conns PROVE Exchange(c)'
    BY <1>2, ThreadMoves DEF servervars, IInv
  <2> QED
    BY <2>1, <2>2, <2>3 DEF IInv
<1> QED
  BY <1>1, <1>2

\* The inductive invariant of the service.
THEOREM Invariance == ServiceSpec => []IInv
BY InitIInv, NextIInv, PTL DEF ServiceSpec

-----------------------------------------------------------------------------
(* What it gives *)

\* The count of threads is right and within the cap, a client's next reply is the
\* one to its call, and a client is told ok of a write exactly when the engine
\* applied it (server.rs:382-386, client.rs:66-71, server.rs:471-519).
THEOREM ServiceIsTrue == ServiceSpec => []ServiceInvariant
<1>1. IInv => ServiceInvariant
  <2> SUFFICES ASSUME IInv PROVE ServiceInvariant
    OBVIOUS
  <2>1. ServiceTypeOK
    BY DEF IInv, Typed, Staged, Exchange, OneCall, ServiceTypeOK
  <2>2. CapHolds
    BY DEF IInv, Counts, CapHolds
  <2>3. RepliesTellTheTruth
    <3> SUFFICES ASSUME NEW c \in Conns
        PROVE  /\ replies[c] # <<>> /\ Up(c) => Head(replies[c]).id = client[c].waits
               /\ \A r \in client[c].told :
                     client[c].asked[r.id] \in WriteKinds => (r.status = "ok" <=> <<c, r.id>> \in applied)
      BY DEF RepliesTellTheTruth
    <3>1. Typed /\ Exchange(c)
      BY DEF IInv
    <3>2. replies[c] # <<>> => Head(replies[c]).id = Last(c)
      BY <3>1, ExchangeTypes
    <3>3. replies[c] # <<>> /\ Up(c) => client[c].waits = Last(c)
      BY <3>1 DEF Exchange, OneCall, Up
    <3> QED
      BY <3>1, <3>2, <3>3 DEF Exchange, Truth, Truthful, Asked
  <2> QED
    BY <2>1, <2>2, <2>3 DEF ServiceInvariant
<1> QED
  BY <1>1, Invariance, PTL

\* Whatever the order of requests, what a connection was allowed it had earned by a
\* token it gave before (server.rs:430-434, 471-514).
THEOREM EarnedPrivileges == ServiceSpec => []PrivilegesAreEarned
<1>1. IInv => PrivilegesAreEarned
  <2> SUFFICES ASSUME IInv PROVE PrivilegesAreEarned
    OBVIOUS
  <2>1. ASSUME NEW c \in Conns
        PROVE  /\ \A id : <<c, id>> \in applied => Admin(c, id)
               /\ \A r \in client[c].told : Entitled(c, r)
    BY DEF IInv, Typed, Exchange, Earned
  <2> QED
    BY <2>1 DEF PrivilegesAreEarned, Entitled, Admin, Known, Gave, Asked
<1> QED
  BY <1>1, Invariance, PTL
=============================================================================
