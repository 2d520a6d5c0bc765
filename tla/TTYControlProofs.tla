-------------------------- MODULE TTYControlProofs --------------------------
(***************************************************************************)
(* Proofs about TTYControl, for any number of resizes, any backlog and     *)
(* either framing: a success belongs to the call that reports it, a stale  *)
(* request never undoes it, and Delete leaves no connection.               *)
(***************************************************************************)
EXTENDS TTYControl, SequenceTheorems, TLAPS

Finds == {"new", "path", "make_path", "client", "lock", "write", "read", "ok", "err"}
Makes == {"new", "make_path", "m_console", "m_path", "m_start", "m_reset", "m_wait",
          "m_stop", "runc", "ok", "err"}
Closes == {"new", "detach", "lock", "untrack", "ok"}

\* Where each kind of call can be, and what it knows there.
Where ==
    /\ \A h \in Resizers : pc[h] \in Finds
    /\ pc["create"] \in Makes /\ pc["delete"] \in Closes
    /\ \A h \in Resizers : pc[h] = "client" => path[h] \in Calls
    /\ \A h \in Resizers : pc[h] \in {"lock", "write", "read"} => mine[h] # None
    /\ pc["delete"] = "lock" => mine["delete"] # None

\* Only a call that is in an exchange holds a client, and the client is connected.
Holders ==
    \A k \in 1..Len(clients) : LET h == clients[k].mu IN
        h # NoCall => /\ h \in Resizers /\ mine[h] = k /\ pc[h] \in {"write", "read"}
                      /\ clients[k].conn # None

\* runc's connection comes once, and is not among those the handler serves.
RuncOnce ==
    /\ pc["create"] \notin {"ok", "err"} \/ handler.st = "ready" =>
          \A n \in 1..Len(handler.backlog) : handler.backlog[n] # Runc
    /\ \A m, n \in 1..Len(handler.backlog) :
          m < n => handler.backlog[m] # Runc \/ handler.backlog[n] # Runc

\* A connection is open for one client only.
Owned ==
    /\ \A k \in 1..Len(clients) : clients[k].conn # None =>
          /\ conns[clients[k].conn].open
          /\ \A j \in 1..Len(clients) : clients[j].conn = clients[k].conn => j = k
    /\ \A c \in ConnIds : conns[c].open =>
          \E k \in 1..Len(clients) : clients[k].conn = c

\* While one client is in use, it holds the latest connection and no other does.
Latest ==
    OneClient => \A k \in 1..Len(clients) : clients[k].conn # None =>
        /\ clients[k].conn = Len(conns)
        /\ \A j \in 1..Len(clients) : clients[j].conn # None => j = k

\* What Delete has ended by its kill, and what it knows where it is: until it detaches
\* the client there is no other.
Ending ==
    /\ spared \in BOOLEAN /\ dialled \in Nat /\ dialled <= Len(conns)
    /\ pc["delete"] = "new" => ~spared
    /\ pc["delete"] # "new" => (HandlerUp => spared) /\ pc["create"] \in {"ok", "err"}
    /\ pc["delete"] \in {"new", "detach"} => Len(clients) <= 1 /\ ttyControl = Len(clients)

\* A connection Delete does not close was dialled after it detached the client, which
\* takes a handler that is up.
Closing ==
    /\ pc["delete"] = "lock" =>
          \A k \in 1..Len(clients) : k # mine["delete"] /\ clients[k].conn # None =>
              spared /\ clients[k].conn > dialled
    /\ pc["delete"] \in {"untrack", "ok"} =>
          \A k \in 1..Len(clients) : clients[k].conn # None =>
              spared /\ clients[k].conn > dialled

\* A connection its client has kept carries nothing but the exchange under way.
Exchange ==
    \A k \in 1..Len(clients) : clients[k].conn # None =>
        LET h == clients[k].mu
            c == conns[clients[k].conn]
        IN  IF h # NoCall /\ pc[h] = "read"
            THEN \/ c.req = <<h>> /\ c.rep = <<>>
                 \/ c.req = <<>> /\ \E ok \in BOOLEAN : c.rep = <<ok>> /\ (ok => h \in applied)
            ELSE c.req = <<>> /\ c.rep = <<>>

Base == StateTypes /\ Where /\ RuncOnce
AInv == /\ Base /\ Holders /\ Owned /\ Latest /\ Ending /\ Closing
        /\ Exchange /\ AckIsOwn

\* f was written before g.
Precedes(f, g) == \E m, n \in 1..Len(written) : m < n /\ written[m] = f /\ written[n] = g

\* A call writes one request, and a request that is pending or applied was written.
WrittenOnce ==
    /\ \A m, n \in 1..Len(written) : written[m] = written[n] => m = n
    /\ \A m \in 1..Len(written) : pc[written[m]] \in {"read", "ok", "err"}
    /\ \A f \in applied : \E m \in 1..Len(written) : written[m] = f
    /\ \A c \in ConnIds : conns[c].req # <<>> =>
          \E m \in 1..Len(written) : conns[c].req = <<written[m]>>

\* The handler serves connections in the order of their dials.
InOrder ==
    /\ \A m, n \in 1..Len(handler.backlog) : m < n /\ handler.backlog[n] # Runc =>
          handler.backlog[m] < handler.backlog[n]
    /\ \A c \in handler.serving, n \in 1..Len(handler.backlog) :
          handler.backlog[n] # Runc => c < handler.backlog[n]
    /\ \A c, d \in handler.serving : c = d

\* Pending requests sit in the connections in the order in which they were written,
\* and one the handler can still read is younger than every one it has applied.
Pending ==
    /\ \A c, d \in ConnIds : \A f, g \in Resizers :
          c < d /\ conns[c].req = <<f>> /\ conns[d].req = <<g>> => Precedes(f, g)
    /\ \A c \in ConnIds : \A g \in Resizers : PeerUp(c) /\ conns[c].req = <<g>> =>
          \A f \in applied : Precedes(f, g)

\* What was applied is not undone by anything older.
NotUndone ==
    \A m, n \in 1..Len(written) : m < n /\ written[n] \in applied => size # written[m]

\* The order of the requests holds while one client is in use.
SInv == AInv /\ WrittenOnce /\ InOrder /\ (OneClient => Pending /\ NotUndone)

-----------------------------------------------------------------------------
Handlers(n) == [st : {"none", "starting", "listening", "ready", "dead"},
                path : Calls \union {NoCall}, backlog : Seq(1..n \union {Runc}),
                serving : SUBSET (1..n), framed : Framings]
Conns == [open : BOOLEAN, req : Seq(Resizers), rep : Seq(BOOLEAN)]
Clients(n) == [path : Calls, conn : 1..n \union {None}, mu : Calls \union {NoCall}]

\* The types of the records, with the number of connections as a parameter.
LEMMA Types ==
    StateTypes <=> /\ sockFile \in Calls \union {NoCall} /\ console \in Calls \union {NoCall}
               /\ path \in [Calls -> Calls \union {NoCall}]
               /\ handler \in Handlers(Len(conns)) /\ conns \in Seq(Conns)
               /\ clients \in Seq(Clients(Len(conns)))
               /\ ttyControl \in 0..Len(clients)
               /\ mine \in [Calls -> 0..Len(clients)]
               /\ size \in Resizers \union {NoCall}
               /\ tracked \in BOOLEAN
               /\ pc \in [Calls -> Labels]
               /\ applied \subseteq Resizers /\ written \in Seq(Resizers)
BY DEF StateTypes, Handlers, Conns, Clients, ConnIds

\* One more connection takes nothing out of the types.
LEMMA TypesGrow ==
    ASSUME NEW n \in Nat
    PROVE  Handlers(n) \subseteq Handlers(n + 1) /\ Clients(n) \subseteq Clients(n + 1)
<1>1. 1..n \subseteq 1..(n + 1)
  OBVIOUS
<1>2. \A s \in Seq(1..n \union {Runc}) : s \in Seq(1..(n + 1) \union {Runc})
  BY <1>1
<1>3. Handlers(n) \subseteq Handlers(n + 1)
  BY <1>1, <1>2 DEF Handlers
<1>4. Clients(n) \subseteq Clients(n + 1)
  BY <1>1 DEF Clients
<1>5. QED
  BY <1>3, <1>4

\* The handler's process ends.
LEMMA EndsType ==
    ASSUME NEW n \in Nat, handler \in Handlers(n), Ends("dead")
    PROVE  /\ handler' \in Handlers(n) /\ handler'.st = "dead" /\ handler'.backlog = <<>>
           /\ handler'.serving = {} /\ handler'.framed = handler.framed
<1>1. /\ handler.path \in Calls \union {NoCall} /\ handler.framed \in Framings
      /\ <<>> \in Seq(1..n \union {Runc}) /\ {} \in SUBSET (1..n)
  BY DEF Handlers
<1>2. handler' = [st |-> "dead", path |-> handler.path, backlog |-> <<>>,
                  serving |-> {}, framed |-> handler.framed]
  BY DEF Handlers, Ends
<1>3. QED
  BY <1>1, <1>2 DEF Handlers

\* A call moves and learns at most a path.
LEMMA WalkWhere ==
    ASSUME StateTypes, Where, NEW h \in Calls, NEW l \in Labels, Goto(h, l), UNCHANGED mine,
           path' \in [Calls -> Calls \union {NoCall}],
           \A g \in Calls : g # h => path'[g] = path[g],
           h \in Resizers => /\ l \in Finds \ {"lock"}
                             /\ l \in {"write", "read"} => mine[h] # None
                             /\ l = "client" => path'[h] \in Calls,
           h = "create" => l \in Makes,
           h = "delete" => l \in Closes \ {"lock"}
    PROVE  Where' /\ pc' \in [Calls -> Labels]
<1>1. /\ pc \in [Calls -> Labels] /\ pc' = [pc EXCEPT ![h] = l]
      /\ Resizers \subseteq Calls /\ "create" \in Calls /\ "delete" \in Calls
      /\ "create" \notin Resizers /\ "delete" \notin Resizers
  BY ResizersFresh DEF StateTypes, Goto, Calls
<1>2. \A g \in Calls : pc'[g] = IF g = h THEN l ELSE pc[g]
  BY <1>1
<1>3. QED
  BY <1>1, <1>2 DEF Where

\* The labels are labels, whoever uses them.
LEMMA LabelSets == Finds \subseteq Labels /\ Makes \subseteq Labels /\ Closes \subseteq Labels
BY DEF Finds, Makes, Closes, Labels, Finished

\* What the steps before and after the use of a client leave alone: every client and
\* connection, and the handler's backlog but for runc.
NoneDialled ==
    /\ handler'.backlog \in {handler.backlog, <<>>, Append(handler.backlog, Runc)}
    /\ handler'.serving \subseteq handler.serving

Walks(h, l) ==
    /\ Goto(h, l) /\ NoneDialled
    /\ UNCHANGED <<client, size, requests, dialled>>
    /\ h # "delete" \/ pc[h] # "new" => UNCHANGED spared
    /\ \/ /\ h \in Resizers /\ handler' = handler
          /\ pc[h] \in {"new", "path", "make_path", "lock"}
          /\ l \in {"path", "make_path", "client", "err"}
       \/ h = "create" /\ pc[h] \notin {"ok", "err"} /\ l \in Makes
       \/ h = "delete" /\ pc[h] = "new" /\ l = "detach"
          /\ spared' \in BOOLEAN /\ (HandlerUp' => spared')
          /\ pc["create"] \in {"ok", "err"}
       \/ h = "delete" /\ pc[h] = "untrack" /\ l = "ok" /\ handler' = handler

\* A step of the handler alone.
LEMMA HandlerTypes ==
    ASSUME Base, UNCHANGED <<sock, client, size, tracked, pc, history>>,
           handler' \in Handlers(Len(conns)), RuncOnce'
    PROVE  Base'
<1>1. UNCHANGED <<sockFile, path, console, conns, clients, ttyControl, mine, applied, written,
                  size, tracked, pc>>
  BY DEF sock, client, history, requests
<1>2. StateTypes'
  BY <1>1, Types DEF Base, StateTypes, Handlers, ConnIds
<1>3. Where'
  BY <1>1 DEF Base, Where, Calls
<1>4. QED
  BY <1>2, <1>3 DEF Base

\* The head of the backlog is taken off it.
LEMMA TailBacklog ==
    ASSUME Base, handler.backlog # <<>>
    PROVE  LET b == handler.backlog IN
           /\ Tail(b) \in Seq(1..Len(conns) \union {Runc}) /\ Len(Tail(b)) = Len(b) - 1
           /\ Len(b) \in Nat \ {0} /\ Head(b) = b[1] /\ b[1] \in 1..Len(conns) \union {Runc}
           /\ \A n \in 1..(Len(b) - 1) : Tail(b)[n] = b[n + 1] /\ n + 1 \in 1..Len(b)
BY Types DEF Base, Handlers

\* The handler starts, fails, takes runc's connection or another for it, serves or ends.
LEMMA HandlerBase ==
    ASSUME Base, \/ HandlerStarts \/ HandlerExits \/ HandlerHandshake \/ Accept \/ ServeEnd
    PROVE  Base' /\ (HandlerUp' => HandlerUp)
<1> DEFINE N == Len(conns)
           b == handler.backlog
<1>1. /\ UNCHANGED <<sock, client, size, tracked, pc, history>>
      /\ handler \in Handlers(N) /\ N \in Nat
  BY Types DEF Base, HandlerStarts, HandlerExits, HandlerHandshake, Accept, ServeEnd, StateTypes
<1>2. /\ b \in Seq(1..N \union {Runc}) /\ handler.serving \subseteq 1..N
      /\ handler.st \in {"starting", "listening", "ready"} \/ ServeEnd
  BY <1>1 DEF HandlerStarts, HandlerExits, HandlerHandshake, Accept, Handlers
<1> SUFFICES /\ handler' \in Handlers(N) /\ RuncOnce'
             /\ handler.st \in {"starting", "listening", "ready"} \/ handler'.st = handler.st
  BY <1>1, HandlerTypes DEF HandlerUp
<1>3. CASE Ends("dead") /\ ~ServeEnd
  BY <1>1, <1>2, <1>3, EndsType DEF RuncOnce
<1>4. CASE HandlerStarts /\ handler' = [handler EXCEPT !.st = "listening"]
  <2>1. handler' \in Handlers(N) /\ handler'.backlog = b /\ handler'.st = "listening"
    BY <1>1, <1>4 DEF Handlers
  <2>2. QED
    BY <1>1, <1>4, <2>1 DEF Base, RuncOnce, HandlerStarts
<1>5. CASE HandlerHandshake /\ ~Ends("dead")
  <2>1. /\ b # <<>> /\ Head(b) = Runc /\ handler.st = "listening"
        /\ handler' = [handler EXCEPT !.st = "ready", !.backlog = Tail(@)]
    BY <1>5 DEF HandlerHandshake
  <2>2. handler' \in Handlers(N) /\ handler'.backlog = Tail(b)
    BY <1>1, <2>1, TailBacklog DEF Handlers
  <2>3. b[1] = Runc /\ 1 \in 1..Len(b)
    BY <2>1, TailBacklog
  <2>4. \A n \in 1..Len(Tail(b)) : Tail(b)[n] # Runc
    <3> SUFFICES ASSUME NEW n \in 1..Len(Tail(b)) PROVE Tail(b)[n] # Runc
      OBVIOUS
    <3>1. Tail(b)[n] = b[n + 1] /\ n + 1 \in 1..Len(b) /\ 1 < n + 1
      BY <2>1, TailBacklog
    <3>2. QED
      BY <2>3, <3>1 DEF Base, RuncOnce
  <2>5. QED
    BY <2>1, <2>2, <2>4 DEF RuncOnce
<1>6. CASE Accept
  <2>1. /\ handler.st = "ready" /\ b # <<>>
        /\ handler' = [handler EXCEPT !.serving = {Head(b)}, !.backlog = Tail(@)]
    BY <1>6 DEF Accept
  <2>2. \A n \in 1..Len(b) : b[n] # Runc
    BY <2>1 DEF Base, RuncOnce
  <2>3. {Head(b)} \in SUBSET (1..N)
    <3>1. b[1] # Runc
      BY <2>1, <2>2, TailBacklog
    <3>2. QED
      BY <2>1, <3>1, TailBacklog
  <2>4. handler' \in Handlers(N) /\ handler'.backlog = Tail(b)
    BY <1>1, <2>1, <2>3, TailBacklog DEF Handlers
  <2>5. \A n \in 1..Len(Tail(b)) : Tail(b)[n] # Runc
    BY <2>1, <2>2, TailBacklog
  <2>6. QED
    BY <2>1, <2>4, <2>5 DEF RuncOnce
<1>7. CASE ServeEnd
  <2>1. PICK c \in handler.serving : handler' = [handler EXCEPT !.serving = @ \ {c}]
    BY <1>7 DEF ServeEnd
  <2>2. handler' \in Handlers(N) /\ handler'.backlog = b /\ handler'.st = handler.st
    BY <1>1, <1>2, <2>1 DEF Handlers
  <2>3. QED
    BY <1>1, <2>2 DEF Base, RuncOnce
<1>8. QED
  BY <1>3, <1>4, <1>5, <1>6, <1>7 DEF HandlerStarts, HandlerExits, HandlerHandshake

\* The fields of a connection.
LEMMA ConnFields ==
    ASSUME NEW x \in Conns
    PROVE  x.open \in BOOLEAN /\ x.req \in Seq(Resizers) /\ x.rep \in Seq(BOOLEAN)
<1>1. x.open \in BOOLEAN
  BY DEF Conns
<1>2. x.req \in Seq(Resizers)
  BY DEF Conns
<1>3. x.rep \in Seq(BOOLEAN)
  BY DEF Conns
<1>4. QED
  BY <1>1, <1>2, <1>3

\* What the handler does to the two streams of a connection.
LEMMA ConnServed ==
    ASSUME NEW x \in Conns, NEW y, NEW req \in Seq(Resizers), NEW rep \in Seq(BOOLEAN),
           y = [x EXCEPT !.req = req, !.rep = rep]
    PROVE  y \in Conns /\ y.req = req /\ y.rep = rep /\ y.open = x.open
BY DEF Conns

\* The handler applies a request or fails to.
LEMMA ServeBase ==
    ASSUME Base, Serve
    PROVE  /\ Base'
           /\ UNCHANGED <<sock, clients, ttyControl, mine, tracked, pc, written, spared,
                          dialled>>
           /\ Len(conns') = Len(conns)
           /\ handler'.st = handler.st /\ handler'.backlog = handler.backlog
           /\ handler'.serving \subseteq handler.serving
           /\ \E c \in handler.serving, ok \in BOOLEAN :
                 /\ c \in ConnIds /\ conns[c].req # <<>> /\ Head(conns[c].req) \in Resizers
                 /\ size' = IF ok THEN Head(conns[c].req) ELSE size
                 /\ applied' = IF ok THEN applied \union {Head(conns[c].req)} ELSE applied
                 /\ \A d \in ConnIds : d # c => conns'[d] = conns[d]
                 /\ conns'[c].open = conns[c].open
                 /\ conns'[c].req = Tail(conns[c].req)
                 /\ conns'[c].rep = IF conns[c].open THEN Append(conns[c].rep, ok)
                                    ELSE conns[c].rep
<1>1. PICK c \in handler.serving, ok \in BOOLEAN :
        /\ conns[c].req # <<>>
        /\ size' = IF ok THEN Head(conns[c].req) ELSE size
        /\ applied' = IF ok THEN applied \union {Head(conns[c].req)} ELSE applied
        /\ conns' = [conns EXCEPT ![c].req = Tail(@),
                                  ![c].rep = IF conns[c].open THEN Append(@, ok) ELSE @]
        /\ handler' = IF conns[c].open THEN handler
                                       ELSE [handler EXCEPT !.serving = @ \ {c}]
        /\ UNCHANGED <<sock, clients, ttyControl, mine, tracked, pc, written, spared,
                       dialled>>
  BY DEF Serve
<1> DEFINE N == Len(conns)
           x == conns[c]
           req == Tail(x.req)
           rep == IF x.open THEN Append(x.rep, ok) ELSE x.rep
           r == [x EXCEPT !.req = req, !.rep = rep]
<1>2. handler \in Handlers(N) /\ conns \in Seq(Conns) /\ N \in Nat /\ c \in 1..N
      /\ applied \subseteq Resizers /\ size \in Resizers \union {NoCall}
  BY Types DEF Base, Handlers
<1>3. x \in Conns
  BY <1>2
<1>4. Head(x.req) \in Resizers /\ req \in Seq(Resizers)
  BY <1>1, <1>3, ConnFields
<1>5. rep \in Seq(BOOLEAN)
  <2>1. x.rep \in Seq(BOOLEAN) /\ x.open \in BOOLEAN
    BY <1>3, ConnFields
  <2>2. Append(x.rep, ok) \in Seq(BOOLEAN)
    BY <2>1, AppendProperties, Zenon
  <2>3. QED
    BY <2>1, <2>2, Zenon
<1>6. conns' = [conns EXCEPT ![c] = r]
  BY <1>1, <1>2
<1>7. /\ conns' \in Seq(Conns) /\ Len(conns') = N
      /\ conns'[c].open = x.open /\ conns'[c].req = req /\ conns'[c].rep = rep
      /\ \A d \in 1..N : d # c => conns'[d] = conns[d]
  <2> HIDE DEF req, rep, x
  <2>1. r \in Conns /\ r.req = req /\ r.rep = rep /\ r.open = x.open
    BY <1>3, <1>4, <1>5, ConnServed
  <2> HIDE DEF r
  <2>2. /\ conns' \in Seq(Conns) /\ Len(conns') = N /\ conns'[c] = r
        /\ \A d \in 1..N : d # c => conns'[d] = conns[d]
    BY <1>2, <1>6, <2>1
  <2>3. QED
    BY <2>1, <2>2
<1>8. /\ handler' \in Handlers(N) /\ handler'.st = handler.st
      /\ handler'.backlog = handler.backlog /\ handler'.serving \subseteq handler.serving
  BY <1>1, <1>2 DEF Handlers
<1>9. size' \in Resizers \union {NoCall} /\ applied' \subseteq Resizers
  BY <1>1, <1>2, <1>4
<1>10. StateTypes'
  <2>1. UNCHANGED <<sockFile, path, console, clients, ttyControl, mine, tracked, pc, written>>
    BY <1>1 DEF sock
  <2>2. QED
    BY <1>7, <1>8, <1>9, <2>1, Types DEF Base, StateTypes, Handlers, Conns, ConnIds
<1>11. Where' /\ RuncOnce'
  BY <1>1, <1>8 DEF Base, Where, RuncOnce, sock, Calls
<1>12. QED
  BY <1>1, <1>2, <1>4, <1>7, <1>8, <1>10, <1>11 DEF Base, ConnIds

\* A step of a call that changes no client and no connection.
LEMMA WalkBase ==
    ASSUME Base, NEW h \in Calls, NEW l, Goto(h, l),
           UNCHANGED <<sockFile, path, client, size, requests>>,
           h \in Resizers => l \in Finds \ {"client", "lock", "write", "read"},
           h = "create" => l \in Makes,
           h = "delete" => l \in Closes \ {"lock"},
           console' \in Calls \union {NoCall}, tracked' \in BOOLEAN,
           handler' \in Handlers(Len(conns)), RuncOnce'
    PROVE  Base'
<1>1. UNCHANGED <<sockFile, path, conns, clients, ttyControl, mine, size, applied, written>>
  BY DEF client, requests
<1>2. l \in Labels /\ path' \in [Calls -> Calls \union {NoCall}] /\ StateTypes /\ Where
  BY <1>1, LabelSets DEF Base, StateTypes, Calls
<1>3. Where' /\ pc' \in [Calls -> Labels]
  BY <1>1, <1>2, WalkWhere
<1>4. StateTypes'
  BY <1>1, <1>2, <1>3, Types DEF StateTypes, Handlers, ConnIds
<1>5. QED
  BY <1>3, <1>4 DEF Base

\* Finding or making the path of the socket.
LEMMA PathBase ==
    ASSUME Base, NEW h \in Calls, NEW from, NEW to,
           \/ h \in Resizers /\ to = "client"
           \/ h = "create" /\ to \in Makes,
           from \in {"new", "path", "m_path"},
           ttySockPath(h, from, to) \/ makeSockPath(h, to)
    PROVE  Base' /\ \E l : Walks(h, l)
<1>1. PICK l : /\ Goto(h, l) /\ l \in {"make_path", "err", to}
               /\ l = "client" => path'[h] \in Calls
               /\ path' \in [Calls -> Calls \union {NoCall}]
               /\ \A g \in Calls : g # h => path'[g] = path[g]
               /\ sockFile' \in Calls \union {NoCall}
  <2>1. /\ sockFile \in Calls \union {NoCall} /\ path \in [Calls -> Calls \union {NoCall}]
    BY DEF Base, StateTypes
  <2>2. \/ Goto(h, "make_path") /\ UNCHANGED <<path, sockFile>>
        \/ Goto(h, "err") /\ UNCHANGED <<path, sockFile>>
        \/ sockFile # NoCall /\ Goto(h, to) /\ path' = [path EXCEPT ![h] = sockFile]
           /\ UNCHANGED sockFile
        \/ Goto(h, to) /\ path' = [path EXCEPT ![h] = h] /\ sockFile' = h
    BY DEF ttySockPath, makeSockPath, Step
  <2>3. QED
    BY <2>1, <2>2
<1>2. UNCHANGED <<console, handler, client, size, tracked, history>>
  BY DEF ttySockPath, makeSockPath
<1>3. l \in Labels /\ (h \in Resizers => l \in Finds \ {"lock", "write", "read"})
      /\ (h = "create" => l \in Makes) /\ h # "delete"
  BY <1>1, LabelSets, ResizersFresh DEF Finds, Makes
<1>4. Where' /\ pc' \in [Calls -> Labels]
  BY <1>1, <1>2, <1>3, WalkWhere DEF Base, client
<1>5. StateTypes'
  BY <1>1, <1>2, <1>4, Types DEF Base, StateTypes, client, history, requests, ConnIds
<1>6. pc[h] \in {"new", "path", "m_path", "make_path"}
  BY DEF ttySockPath, makeSockPath, Step
<1>7. RuncOnce'
  <2>1. /\ pc \in [Calls -> Labels] /\ "create" \in Calls /\ h \in Calls
        /\ pc' = [pc EXCEPT ![h] = l]
    BY <1>1 DEF Base, StateTypes, Calls, Goto
  <2>2. pc'["create"] \notin {"ok", "err"} => pc["create"] \notin {"ok", "err"}
    BY <1>6, <2>1
  <2>3. QED
    BY <1>2, <2>2 DEF Base, RuncOnce
<1>8. Walks(h, l)
  <2>1. h \in Resizers => /\ pc[h] \in {"new", "path", "make_path"}
                         /\ l \in {"make_path", "client", "err"}
    BY <1>1, <1>6, ResizersFresh DEF Base, Where, Finds
  <2>2. QED
    BY <1>1, <1>2, <1>3, <1>6, <2>1 DEF Walks, NoneDialled, history
<1>9. QED
  BY <1>4, <1>5, <1>7, <1>8 DEF Base

\* The handler's unit is started.
LEMMA StartBase ==
    ASSUME Base, NEW from, from \in {"m_start", "m_reset"}, NEW failed,
           failed \in {"m_reset", "m_stop"}, StartTTY(from, failed)
    PROVE  Base' /\ \E l : Walks("create", l)
<1>1. /\ handler \in Handlers(Len(conns)) /\ console \in Calls \union {NoCall}
      /\ tracked \in BOOLEAN /\ path["create"] \in Calls \union {NoCall}
      /\ "create" \in Calls /\ "create" \notin Resizers /\ pc \in [Calls -> Labels]
  BY Types, ResizersFresh DEF Base, Calls
<1>2. /\ pc["create"] = from /\ UNCHANGED <<sock, client, size, tracked, history>>
  BY DEF StartTTY
<1>3. PICK l \in {"m_wait", failed} :
          /\ Goto("create", l) /\ l \in Makes
          /\ \/ handler' = handler
             \/ handler' = [handler EXCEPT !.st = "starting", !.path = path["create"]]
  BY DEF StartTTY, Makes
<1>4. /\ handler' \in Handlers(Len(conns)) /\ handler'.backlog = handler.backlog
      /\ handler'.serving = handler.serving
  BY <1>1, <1>3 DEF Handlers
<1>5. RuncOnce'
  BY <1>2, <1>4 DEF Base, RuncOnce
<1>6. Base'
  BY <1>1, <1>2, <1>3, <1>4, <1>5, WalkBase DEF sock, history
<1>7. QED
  BY <1>2, <1>3, <1>4, <1>6 DEF Walks, NoneDialled, history

\* The other steps of Create that are not about the path of the socket.
LEMMA CreateBase ==
    ASSUME Base, AwaitTTY \/ StopTTY \/ Console \/ RuncConnects
    PROVE  Base' /\ \E l : Walks("create", l)
<1>1. /\ handler \in Handlers(Len(conns)) /\ console \in Calls \union {NoCall}
      /\ Len(conns) \in Nat
      /\ tracked \in BOOLEAN /\ path["create"] \in Calls \union {NoCall}
      /\ "create" \in Calls /\ "create" \notin Resizers /\ pc \in [Calls -> Labels]
      /\ "create" # "delete"
  BY Types, ResizersFresh DEF Base, Calls
<1>2. /\ pc["create"] \in {"m_wait", "m_stop", "runc", "m_console"}
      /\ UNCHANGED <<sockFile, path, client, size, tracked, history>>
      /\ console' \in Calls \union {NoCall}
  BY <1>1 DEF AwaitTTY, StopTTY, Console, RuncConnects, Step, sock
<1>3. PICK l : Goto("create", l) /\ l \in Makes
  BY DEF AwaitTTY, StopTTY, Console, RuncConnects, Step, Makes
<1>4. handler' \in Handlers(Len(conns)) /\ RuncOnce' /\ NoneDialled
  <2>1. CASE handler' = handler
    BY <1>1, <1>2, <2>1 DEF Base, RuncOnce, NoneDialled
  <2>2. CASE Ends("dead")
    BY <1>1, <2>2, EndsType DEF RuncOnce, NoneDialled
  <2>3. CASE RuncConnects
    <3> DEFINE b == handler.backlog
    <3>1. /\ handler' = [handler EXCEPT !.backlog = Append(@, Runc)]
          /\ handler.st = "listening" /\ pc["create"] = "runc"
      BY <2>3 DEF RuncConnects
    <3>2. b \in Seq(1..Len(conns) \union {Runc}) /\ \A n \in 1..Len(b) : b[n] # Runc
      BY <1>1, <3>1 DEF Base, RuncOnce, Handlers
    <3>3. Append(b, Runc) \in Seq(1..Len(conns) \union {Runc})
      BY <3>2
    <3>4. /\ handler' \in Handlers(Len(conns)) /\ handler'.backlog = Append(b, Runc)
          /\ handler'.st = "listening" /\ handler'.serving = handler.serving
      BY <1>1, <3>1, <3>3 DEF Handlers
    <3>5. pc'["create"] = "ok"
      BY <1>1, <2>3 DEF RuncConnects, Goto
    <3>6. \A m, n \in 1..Len(Append(b, Runc)) :
              m < n => Append(b, Runc)[m] # Runc \/ Append(b, Runc)[n] # Runc
      BY <3>2
    <3>7. QED
      BY <3>4, <3>5, <3>6 DEF RuncOnce, NoneDialled
  <2>4. QED
    BY <2>1, <2>2, <2>3 DEF AwaitTTY, StopTTY, Console
<1>5. Base'
  BY <1>1, <1>2, <1>3, <1>4, WalkBase DEF history
<1>6. QED
  BY <1>2, <1>3, <1>4, <1>5 DEF Walks, history

\* The steps of Delete around the closing of the client.
LEMMA DeleteBase ==
    ASSUME Base, spared \in BOOLEAN, KillTTY \/ Untrack
    PROVE  Base' /\ \E l : Walks("delete", l)
<1>0. spared \in BOOLEAN
  OBVIOUS
<1>1. /\ handler \in Handlers(Len(conns)) /\ console \in Calls \union {NoCall}
      /\ Len(conns) \in Nat
      /\ tracked \in BOOLEAN
      /\ "delete" \in Calls /\ "delete" \notin Resizers /\ pc \in [Calls -> Labels]
      /\ "create" # "delete" /\ "create" \in Calls
  BY Types, ResizersFresh DEF Base, Calls
<1>2. /\ UNCHANGED <<sockFile, path, client, size, requests, dialled, console>>
      /\ Untrack => UNCHANGED spared
  BY DEF KillTTY, Untrack, sock, history
<1>3. PICK l : /\ Goto("delete", l) /\ l \in Closes \ {"lock"}
               /\ \/ KillTTY /\ l = "detach" /\ pc["delete"] = "new"
                  \/ Untrack /\ l = "ok" /\ pc["delete"] = "untrack"
  BY DEF KillTTY, Untrack, Step, Closes
<1>4. tracked' \in BOOLEAN
  BY <1>1 DEF KillTTY, Untrack
<1>5. pc'["create"] = pc["create"]
  BY <1>1, <1>3 DEF Goto
<1>6. handler' \in Handlers(Len(conns)) /\ RuncOnce' /\ NoneDialled
      /\ (KillTTY => (HandlerUp' => spared'))
  <2>1. CASE handler' = handler
    BY <1>1, <1>5, <2>1 DEF Base, RuncOnce, NoneDialled, KillTTY, HandlerUp, Ends, Handlers
  <2>2. CASE Ends("dead")
    BY <1>1, <2>2, EndsType DEF RuncOnce, NoneDialled, HandlerUp
  <2>3. QED
    BY <2>1, <2>2 DEF KillTTY, Untrack
<1>7. Base'
  BY <1>1, <1>2, <1>3, <1>4, <1>6, WalkBase
<1>8. ASSUME KillTTY PROVE spared' \in BOOLEAN
  <2>1. CASE spared' = HandlerUp
    <3>1. HandlerUp \in BOOLEAN
      BY DEF HandlerUp
    <3>2. QED
      BY <2>1, <3>1, Zenon
  <2>2. CASE UNCHANGED spared
    BY <1>0, <2>2
  <2>3. QED
    BY <1>8, <2>1, <2>2 DEF KillTTY
<1>9. QED
  BY <1>1, <1>2, <1>3, <1>6, <1>7, <1>8 DEF Walks, KillTTY, Untrack

\* The lookup of a resize.
LEMMA LookupBase ==
    ASSUME Base, NEW h \in Resizers, Lookup(h)
    PROVE  Base' /\ \E l : Walks(h, l)
<1>1. /\ handler \in Handlers(Len(conns)) /\ console \in Calls \union {NoCall}
      /\ tracked \in BOOLEAN /\ pc \in [Calls -> Labels]
      /\ h \in Calls /\ h # "delete" /\ h # "create" /\ "create" \in Calls
  BY Types, ResizersFresh DEF Base, Calls
<1>2. /\ UNCHANGED <<sockFile, path, console, tracked, handler, client, size, history>>
      /\ pc[h] = "new"
  BY DEF Lookup, Step, sock
<1>3. PICK l \in {"path", "err"} : Goto(h, l) /\ l \in Finds
  BY DEF Lookup, Step, Finds
<1>4. RuncOnce'
  <2>1. pc'["create"] = pc["create"]
    BY <1>1, <1>3 DEF Goto
  <2>2. QED
    BY <1>2, <2>1 DEF Base, RuncOnce
<1>5. Base'
  BY <1>1, <1>2, <1>3, <1>4, WalkBase DEF history
<1>6. QED
  BY <1>1, <1>2, <1>3, <1>5 DEF Walks, NoneDialled, history

-----------------------------------------------------------------------------
(***************************************************************************)
(* The steps that use a client.                                            *)
(***************************************************************************)
\* Client k is left with connection c and held by u; the others are as they were.
Leaves(k, c, u) ==
    /\ k \in 1..Len(clients) /\ Len(clients') = Len(clients)
    /\ \A j \in 1..Len(clients) : j # k => clients'[j] = clients[j]
    /\ clients'[k].conn = c /\ clients'[k].mu = u

\* Assignments to the fields of a client.
LEMMA ClientSet ==
    ASSUME NEW n \in Nat, clients \in Seq(Clients(n)), NEW k \in 1..Len(clients),
           NEW c \in 1..n \union {None}, NEW u \in Calls \union {NoCall},
           \/ clients' = [clients EXCEPT ![k].mu = u] /\ c = clients[k].conn
           \/ clients' = [clients EXCEPT ![k].mu = u, ![k].conn = c]
           \/ clients' = [clients EXCEPT ![k].conn = c, ![k].mu = u]
    PROVE  clients' \in Seq(Clients(n)) /\ Leaves(k, c, u)
<1>1. clients[k] \in Clients(n)
  OBVIOUS
<1>2. ASSUME NEW y \in Clients(n), y.conn = c, y.mu = u, clients' = [clients EXCEPT ![k] = y]
      PROVE  clients' \in Seq(Clients(n)) /\ Leaves(k, c, u)
  BY <1>2 DEF Leaves
<1>3. CASE clients' = [clients EXCEPT ![k].mu = u] /\ c = clients[k].conn
  <2> DEFINE y == [clients[k] EXCEPT !.mu = u]
  <2>1. y \in Clients(n) /\ y.conn = c /\ y.mu = u
    BY <1>1, <1>3 DEF Clients
  <2>2. clients' = [clients EXCEPT ![k] = y]
    BY <1>3
  <2>3. QED
    BY <1>2, <2>1, <2>2
<1>4. CASE clients' = [clients EXCEPT ![k].mu = u, ![k].conn = c]
  <2> DEFINE y == [clients[k] EXCEPT !.mu = u, !.conn = c]
  <2>1. y \in Clients(n) /\ y.conn = c /\ y.mu = u
    BY <1>1 DEF Clients
  <2>2. clients' = [clients EXCEPT ![k] = y]
    BY <1>4
  <2>3. QED
    BY <1>2, <2>1, <2>2
<1>5. CASE clients' = [clients EXCEPT ![k].conn = c, ![k].mu = u]
  <2> DEFINE y == [clients[k] EXCEPT !.conn = c, !.mu = u]
  <2>1. y \in Clients(n) /\ y.conn = c /\ y.mu = u
    BY <1>1 DEF Clients
  <2>2. clients' = [clients EXCEPT ![k] = y]
    BY <1>5
  <2>3. QED
    BY <1>2, <2>1, <2>2
<1>6. QED
  BY <1>3, <1>4, <1>5

\* A call's move that leaves the socket and the handler's unit alone.
LEMMA MoveBase ==
    ASSUME Base, NEW h \in Calls, NEW l, Goto(h, l), h # "create",
           UNCHANGED <<sock, size, tracked, applied>>,
           Len(conns') \in Nat, handler' \in Handlers(Len(conns')),
           conns' \in Seq(Conns), clients' \in Seq(Clients(Len(conns'))),
           ttyControl' \in 0..Len(clients'), mine' \in [Calls -> 0..Len(clients')],
           written' \in Seq(Resizers),
           \A g \in Calls : g # h => mine'[g] = mine[g],
           h \in Resizers => l \in {"lock", "write", "read", "ok", "err"},
           h = "delete" => l \in {"lock", "untrack"},
           l \in {"lock", "write", "read"} => mine'[h] # None,
           RuncOnce'
    PROVE  Base'
<1>1. /\ pc \in [Calls -> Labels] /\ pc' = [pc EXCEPT ![h] = l]
      /\ Resizers \subseteq Calls /\ "create" \in Calls /\ "delete" \in Calls
      /\ "create" \notin Resizers /\ "delete" \notin Resizers
      /\ h \in Resizers \union {"delete"}
  BY ResizersFresh DEF Base, StateTypes, Goto, Calls
<1>2. l \in Labels /\ (h \in Resizers => l \in Finds) /\ (h = "delete" => l \in Closes)
  BY <1>1 DEF Labels, Finished, Finds, Closes
<1>3. pc' \in [Calls -> Labels] /\ \A g \in Calls : pc'[g] = IF g = h THEN l ELSE pc[g]
  BY <1>1, <1>2
<1>4. UNCHANGED <<sockFile, path, console, size, tracked, applied>>
  BY DEF sock
<1>5. StateTypes'
  <2>1. /\ sockFile' \in Calls \union {NoCall} /\ console' \in Calls \union {NoCall}
        /\ path' \in [Calls -> Calls \union {NoCall}] /\ size' \in Resizers \union {NoCall}
        /\ tracked' \in BOOLEAN /\ applied' \subseteq Resizers
    BY <1>4 DEF Base, StateTypes
  <2>2. QED
    BY <1>3, <2>1 DEF StateTypes, Handlers, Conns, Clients, ConnIds, Calls
<1>6. Where'
  <2>1. Where
    BY DEF Base
  <2>2. \A g \in Resizers : pc'[g] \in Finds
    BY <1>1, <1>2, <1>3, <2>1 DEF Where
  <2>3. pc'["create"] \in Makes /\ pc'["delete"] \in Closes
    BY <1>1, <1>2, <1>3, <2>1 DEF Where
  <2>4. \A g \in Resizers : pc'[g] = "client" => path'[g] \in Calls
    BY <1>1, <1>3, <1>4, <2>1 DEF Where
  <2>5. \A g \in Resizers : pc'[g] \in {"lock", "write", "read"} => mine'[g] # None
    BY <1>1, <1>3, <2>1 DEF Where
  <2>6. pc'["delete"] = "lock" => mine'["delete"] # None
    BY <1>1, <1>3, <2>1 DEF Where
  <2>7. QED
    BY <2>2, <2>3, <2>4, <2>5, <2>6 DEF Where, Calls
<1>7. QED
  BY <1>5, <1>6 DEF Base

\* A step of a resize or of Delete that keeps the handler as it is.
LEMMA SameRunc ==
    ASSUME Base, NEW h \in Calls, h # "create", NEW l, Goto(h, l),
           handler'.backlog = handler.backlog, handler'.st = handler.st
    PROVE  RuncOnce'
<1>1. pc'["create"] = pc["create"]
  BY DEF Base, StateTypes, Goto, Calls
<1>2. QED
  BY <1>1 DEF Base, RuncOnce

\* process.ResizePTY hands out the client of the process, and makes one if need be.
Fetches(h) ==
    /\ Goto(h, "lock") /\ pc[h] = "client"
    /\ UNCHANGED <<handler, conns, size, history>>
    /\ mine'[h] = ttyControl' /\ ttyControl' \in 1..Len(clients')
    /\ \A g \in Calls : g # h => mine'[g] = mine[g]
    /\ \A k \in 1..Len(clients) : clients'[k] = clients[k]
    /\ \/ Len(clients') = Len(clients) /\ ttyControl' = ttyControl
       \/ /\ ttyControl = None /\ Len(clients') = Len(clients) + 1
          /\ ttyControl' = Len(clients')
          /\ clients'[Len(clients')].conn = None /\ clients'[Len(clients')].mu = NoCall

\* ResizePTY keeps the types and does exactly that.
LEMMA FetchBase ==
    ASSUME Base, NEW h \in Resizers, ResizePTY(h)
    PROVE  Base' /\ Fetches(h)
<1> DEFINE n == Len(conns)
           new == [path |-> path[h], conn |-> None, mu |-> NoCall]
<1>1. /\ conns \in Seq(Conns) /\ n \in Nat /\ handler \in Handlers(n)
      /\ clients \in Seq(Clients(n)) /\ ttyControl \in 0..Len(clients)
      /\ mine \in [Calls -> 0..Len(clients)] /\ written \in Seq(Resizers)
      /\ h \in Calls /\ h # "create" /\ h # "delete" /\ Len(clients) \in Nat
  BY Types, ResizersFresh DEF Base, Calls
<1>2. /\ pc[h] = "client" /\ Goto(h, "lock")
      /\ mine' = [mine EXCEPT ![h] = ttyControl']
      /\ UNCHANGED <<sock, handler, conns, size, tracked, history, applied, written>>
  BY DEF ResizePTY, Step, history, requests
<1>3. /\ clients' \in Seq(Clients(n)) /\ ttyControl' \in 1..Len(clients')
      /\ \A k \in 1..Len(clients) : clients'[k] = clients[k]
      /\ Len(clients) <= Len(clients') /\ Len(clients') \in Nat
      /\ \/ Len(clients') = Len(clients) /\ ttyControl' = ttyControl
         \/ /\ ttyControl = None /\ Len(clients') = Len(clients) + 1
            /\ ttyControl' = Len(clients')
            /\ clients'[Len(clients')].conn = None
            /\ clients'[Len(clients')].mu = NoCall
  <2>1. CASE ttyControl = None
    <3>1. clients' = Append(clients, new) /\ ttyControl' = Len(clients) + 1
      BY <2>1 DEF ResizePTY
    <3>2. new \in Clients(n) /\ new.conn = None /\ new.mu = NoCall
      BY <1>1, <1>2 DEF Base, Where, Clients
    <3> HIDE DEF new
    <3>3. /\ clients' \in Seq(Clients(n)) /\ Len(clients') = Len(clients) + 1
          /\ \A k \in 1..Len(clients) : clients'[k] = clients[k]
          /\ clients'[Len(clients) + 1] = new
      BY <1>1, <3>1, <3>2
    <3>4. QED
      BY <1>1, <2>1, <3>1, <3>2, <3>3
  <2>2. CASE ttyControl # None
    BY <1>1, <2>2 DEF ResizePTY, None
  <2>3. QED
    BY <2>1, <2>2
<1>4. /\ mine' \in [Calls -> 0..Len(clients')] /\ mine'[h] = ttyControl'
      /\ \A g \in Calls : g # h => mine'[g] = mine[g]
  BY <1>1, <1>2, <1>3
<1>5. RuncOnce'
  BY <1>1, <1>2, SameRunc
<1>6. Base'
  BY <1>1, <1>2, <1>3, <1>4, <1>5, MoveBase DEF None
<1>7. QED
  BY <1>2, <1>3, <1>4, <1>6 DEF Fetches

\* Resize finds the client connected and holds it.
Takes(h) ==
    /\ Goto(h, "write") /\ pc[h] = "lock"
    /\ UNCHANGED <<handler, conns, ttyControl, mine, size, history>>
    /\ clients[mine[h]].conn # None /\ clients[mine[h]].mu = NoCall
    /\ Leaves(mine[h], clients[mine[h]].conn, h)

\* Resize dials.
Dials(h) ==
    /\ Goto(h, "write") /\ pc[h] = "lock"
    /\ UNCHANGED <<ttyControl, mine, size, history>>
    /\ clients[mine[h]].conn = None /\ clients[mine[h]].mu = NoCall
    /\ HandlerUp /\ handler'.st = handler.st /\ handler'.serving = handler.serving
    /\ handler'.backlog = Append(handler.backlog, Len(conns) + 1)
    /\ Len(conns') = Len(conns) + 1
    /\ \A c \in ConnIds : conns'[c] = conns[c]
    /\ conns'[Len(conns')].open /\ conns'[Len(conns')].req = <<>>
    /\ conns'[Len(conns')].rep = <<>>
    /\ Leaves(mine[h], Len(conns'), h)

\* dial keeps the types, and dials, reuses the open connection, or fails.
LEMMA DialBase ==
    ASSUME Base, NEW h \in Resizers, dial(h)
    PROVE  Base' /\ (Takes(h) \/ Dials(h) \/ Walks(h, "err"))
<1> DEFINE n == Len(conns)
           k == mine[h]
           new == [open |-> TRUE, req |-> <<>>, rep |-> <<>>]
<1>1. /\ conns \in Seq(Conns) /\ n \in Nat /\ handler \in Handlers(n)
      /\ clients \in Seq(Clients(n)) /\ ttyControl \in 0..Len(clients)
      /\ mine \in [Calls -> 0..Len(clients)] /\ written \in Seq(Resizers)
      /\ h \in Calls /\ h # "create" /\ h # "delete" /\ Len(clients) \in Nat
  BY Types, ResizersFresh DEF Base, Calls
<1>2. /\ pc[h] = "lock" /\ clients[k].mu = NoCall
      /\ UNCHANGED <<sock, ttyControl, mine, size, tracked, history, applied, written>>
  BY DEF dial, history, requests
<1>3. k \in 1..Len(clients) /\ k # None /\ clients[k].conn \in 1..n \union {None}
  <2>1. k \in 1..Len(clients) /\ k # None
    BY <1>1, <1>2 DEF Base, Where, None
  <2>2. clients[k] \in Clients(n)
    BY <1>1, <2>1
  <2>3. clients[k].conn \in 1..n \union {None}
    BY <2>2 DEF Clients
  <2>4. QED
    BY <2>1, <2>3
<1>4. CASE /\ Conn(h) # None /\ clients' = [clients EXCEPT ![k].mu = h] /\ Goto(h, "write")
           /\ UNCHANGED <<handler, conns>>
  <2>1. clients' \in Seq(Clients(n)) /\ Leaves(k, clients[k].conn, h)
    BY <1>1, <1>3, <1>4, ClientSet
  <2>2. RuncOnce'
    BY <1>1, <1>4, SameRunc
  <2>3. Len(clients') = Len(clients)
    BY <2>1 DEF Leaves
  <2>4. Base'
    BY <1>1, <1>2, <1>3, <1>4, <2>1, <2>2, <2>3, MoveBase
  <2>5. QED
    BY <1>2, <1>4, <2>1, <2>4 DEF Takes, Conn
<1>5. CASE /\ Conn(h) = None /\ Reachable(k) /\ conns' = Append(conns, new)
           /\ clients' = [clients EXCEPT ![k].mu = h, ![k].conn = n + 1]
           /\ handler' = [handler EXCEPT !.backlog = Append(@, n + 1)] /\ Goto(h, "write")
  <2>1. new \in Conns /\ new.open /\ new.req = <<>> /\ new.rep = <<>>
    <3>1. <<>> \in Seq(Resizers)
      OBVIOUS
    <3>2. <<>> \in Seq(BOOLEAN)
      OBVIOUS
    <3>3. QED
      BY <3>1, <3>2 DEF Conns
  <2> HIDE DEF new
  <2>2. /\ conns' \in Seq(Conns) /\ Len(conns') = n + 1 /\ conns'[n + 1] = new
        /\ \A c \in 1..n : conns'[c] = conns[c]
    BY <1>1, <1>5, <2>1
  <2>3. clients \in Seq(Clients(n + 1)) /\ handler \in Handlers(n + 1)
    <3>1. Clients(n) \subseteq Clients(n + 1) /\ handler \in Handlers(n + 1)
      BY <1>1, TypesGrow
    <3> HIDE DEF n
    <3>2. QED
      BY <1>1, <3>1
  <2>4. n + 1 \in Nat /\ n + 1 \in 1..(n + 1) \union {None} /\ h \in Calls \union {NoCall}
    BY <1>1
  <2>5. clients' \in Seq(Clients(n + 1)) /\ Leaves(k, n + 1, h)
    BY <1>3, <1>5, <2>3, <2>4, ClientSet
  <2>6. /\ handler' \in Handlers(n + 1) /\ handler'.st = handler.st
        /\ handler'.serving = handler.serving
        /\ handler'.backlog = Append(handler.backlog, n + 1)
    <3>1. Append(handler.backlog, n + 1) \in Seq(1..(n + 1) \union {Runc})
      BY <2>3, <2>4 DEF Handlers
    <3>2. QED
      BY <1>5, <2>3, <3>1 DEF Handlers
  <2>7. HandlerUp
    BY <1>5 DEF Reachable, HandlerUp
  <2>8. RuncOnce'
    <3>1. pc'["create"] = pc["create"]
      BY <1>1, <1>5 DEF Base, StateTypes, Goto, Calls
    <3>2. handler.backlog \in Seq(1..n \union {Runc}) /\ n + 1 # Runc
      BY <1>1 DEF Handlers, Runc
    <3>3. QED
      BY <2>6, <3>1, <3>2 DEF Base, RuncOnce
  <2>9. Base'
    <3>1. Len(clients') = Len(clients) /\ k # None
      BY <1>3, <2>5 DEF Leaves, None
    <3>2. QED
      BY <1>1, <1>2, <1>5, <2>2, <2>4, <2>5, <2>6, <2>8, <3>1, MoveBase
  <2>10. QED
    BY <1>2, <1>5, <2>1, <2>2, <2>5, <2>6, <2>7, <2>9 DEF Dials, Conn, ConnIds
<1>6. CASE Goto(h, "err") /\ UNCHANGED <<handler, conns, clients>>
  <2>1. RuncOnce'
    BY <1>1, <1>6, SameRunc
  <2>2. Base'
    BY <1>1, <1>2, <1>6, <2>1, MoveBase
  <2>3. QED
    BY <1>1, <1>2, <1>6, <2>2 DEF Walks, NoneDialled, client, history
<1>7. QED
  BY <1>4, <1>5, <1>6 DEF dial

\* Connection c is left with this; the others are as they were.
Carries(c, open, req, rep) ==
    /\ c \in ConnIds /\ Len(conns') = Len(conns)
    /\ \A d \in ConnIds : d # c => conns'[d] = conns[d]
    /\ conns'[c].open = open /\ conns'[c].req = req /\ conns'[c].rep = rep

\* An assignment to one field of a connection.
LEMMA ConnSet ==
    ASSUME conns \in Seq(Conns), NEW c \in ConnIds,
           NEW open \in BOOLEAN, NEW req \in Seq(Resizers), NEW rep \in Seq(BOOLEAN),
           \/ /\ conns' = [conns EXCEPT ![c].open = FALSE]
              /\ open = FALSE /\ req = conns[c].req /\ rep = conns[c].rep
           \/ /\ conns' = [conns EXCEPT ![c].req = req]
              /\ open = conns[c].open /\ rep = conns[c].rep
           \/ /\ conns' = [conns EXCEPT ![c].rep = rep]
              /\ open = conns[c].open /\ req = conns[c].req
    PROVE  conns' \in Seq(Conns) /\ Carries(c, open, req, rep)
<1>1. conns[c] \in Conns
  BY DEF ConnIds
<1>2. ASSUME NEW y \in Conns, y.open = open, y.req = req, y.rep = rep,
             conns' = [conns EXCEPT ![c] = y]
      PROVE  conns' \in Seq(Conns) /\ Carries(c, open, req, rep)
  BY <1>2 DEF Carries, ConnIds
<1>3. CASE /\ conns' = [conns EXCEPT ![c].open = FALSE]
           /\ open = FALSE /\ req = conns[c].req /\ rep = conns[c].rep
  <2> DEFINE y == [conns[c] EXCEPT !.open = FALSE]
  <2>1. y \in Conns /\ y.req = req /\ y.rep = rep
    BY <1>1, <1>3 DEF Conns
  <2>2. y.open = FALSE
    BY <1>1 DEF Conns
  <2>3. conns' = [conns EXCEPT ![c] = y]
    BY <1>3
  <2>4. QED
    BY <1>2, <1>3, <2>1, <2>2, <2>3
<1>4. CASE /\ conns' = [conns EXCEPT ![c].req = req]
           /\ open = conns[c].open /\ rep = conns[c].rep
  <2> DEFINE y == [conns[c] EXCEPT !.req = req]
  <2>1. y \in Conns /\ y.req = req /\ y.rep = rep
    BY <1>1, <1>4 DEF Conns
  <2>2. y.open = open
    BY <1>1, <1>4 DEF Conns
  <2>3. conns' = [conns EXCEPT ![c] = y]
    BY <1>4
  <2>4. QED
    BY <1>2, <2>1, <2>2, <2>3
<1>5. CASE /\ conns' = [conns EXCEPT ![c].rep = rep]
           /\ open = conns[c].open /\ req = conns[c].req
  <2> DEFINE y == [conns[c] EXCEPT !.rep = rep]
  <2>1. y \in Conns /\ y.req = req /\ y.rep = rep
    BY <1>1, <1>5 DEF Conns
  <2>2. y.open = open
    BY <1>1, <1>5 DEF Conns
  <2>3. conns' = [conns EXCEPT ![c] = y]
    BY <1>5
  <2>4. QED
    BY <1>2, <2>1, <2>2, <2>3
<1>6. QED
  BY <1>3, <1>4, <1>5

\* What a call that holds its client knows.
LEMMA HolderFacts ==
    ASSUME Base, Holders, NEW h \in Resizers, NEW from, from \in {"write", "read"},
           Locked(h, from)
    PROVE  /\ mine[h] \in 1..Len(clients) /\ mine[h] # None /\ pc[h] = from
           /\ clients[mine[h]].mu = h
           /\ Conn(h) = clients[mine[h]].conn /\ Conn(h) # None /\ Conn(h) \in ConnIds
<1>1. /\ clients \in Seq(Clients(Len(conns))) /\ mine \in [Calls -> 0..Len(clients)]
      /\ h \in Calls /\ h # NoCall /\ pc[h] = from /\ clients[mine[h]].mu = h
      /\ mine[h] # None /\ Conn(h) = clients[mine[h]].conn
  BY Types, NoCallFresh DEF Base, Calls, Locked, Conn, Where
<1>2. mine[h] \in 1..Len(clients)
  BY <1>1 DEF None
<1>3. clients[mine[h]] \in Clients(Len(conns))
  BY <1>1, <1>2
<1>4. clients[mine[h]].conn # None
  BY <1>1, <1>2 DEF Holders
<1>5. clients[mine[h]].conn \in ConnIds
  BY <1>3, <1>4 DEF Clients, ConnIds
<1>6. QED
  BY <1>1, <1>2, <1>4, <1>5

\* Resize writes its request.
Writes(h) ==
    LET k == mine[h]
        c == clients[k].conn
    IN  /\ Goto(h, "read") /\ pc[h] = "write"
        /\ UNCHANGED <<handler, clients, ttyControl, mine, size, applied, spared, dialled>>
        /\ k \in 1..Len(clients) /\ clients[k].mu = h /\ c # None /\ PeerUp(c)
        /\ written' = Append(written, h)
        /\ Carries(c, conns[c].open, Append(conns[c].req, h), conns[c].rep)

\* A connection is closed and forgotten.
Resets(h, l) ==
    LET k == mine[h]
        c == clients[k].conn
    IN  /\ Goto(h, l)
        /\ UNCHANGED <<handler, ttyControl, mine, size, history>>
        /\ \/ /\ h \in Resizers /\ pc[h] \in {"write", "read"} /\ l = "err"
              /\ clients[k].mu = h
           \/ h = "delete" /\ pc[h] = "lock" /\ l = "untrack" /\ clients[k].mu = NoCall
        /\ \/ c = None /\ conns' = conns
           \/ c # None /\ Carries(c, FALSE, conns[c].req, conns[c].rep)
        /\ Leaves(k, None, NoCall)

\* Whoever closes the connection of a client it may close does exactly that.
LEMMA ResetBase ==
    ASSUME Base, NEW h, NEW l, resets(h, l), mine[h] \in 1..Len(clients),
           \/ /\ h \in Resizers /\ pc[h] \in {"write", "read"} /\ l = "err"
              /\ clients[mine[h]].mu = h
           \/ h = "delete" /\ pc[h] = "lock" /\ l = "untrack" /\ clients[mine[h]].mu = NoCall
    PROVE  Base' /\ Resets(h, l)
<1> DEFINE n == Len(conns)
           k == mine[h]
           c == clients[k].conn
<1>1. /\ conns \in Seq(Conns) /\ n \in Nat /\ handler \in Handlers(n)
      /\ clients \in Seq(Clients(n)) /\ ttyControl \in 0..Len(clients)
      /\ mine \in [Calls -> 0..Len(clients)] /\ written \in Seq(Resizers)
      /\ h \in Calls /\ h # "create" /\ Len(clients) \in Nat
  BY Types, ResizersFresh DEF Base, Calls
<1>2. /\ conns' = IF c = None THEN conns ELSE [conns EXCEPT ![c].open = FALSE]
      /\ clients' = [clients EXCEPT ![k].conn = None, ![k].mu = NoCall]
      /\ Goto(h, l)
      /\ UNCHANGED <<sock, handler, ttyControl, mine, size, tracked, history,
                     applied, written>>
  BY DEF resets, Conn, history, requests
<1>3. None \in 1..n \union {None} /\ NoCall \in Calls \union {NoCall} /\ k \in 1..Len(clients)
  OBVIOUS
<1>4. clients' \in Seq(Clients(n)) /\ Leaves(k, None, NoCall)
  BY <1>1, <1>2, <1>3, ClientSet
<1>5. c \in 1..n \union {None}
  <2>1. clients[k] \in Clients(n)
    BY <1>1
  <2>2. QED
    BY <2>1 DEF Clients
<1>6. /\ conns' \in Seq(Conns) /\ Len(conns') = n
      /\ \/ c = None /\ conns' = conns
         \/ c # None /\ Carries(c, FALSE, conns[c].req, conns[c].rep)
  <2>1. CASE c = None
    BY <1>1, <1>2, <2>1
  <2>2. CASE c # None
    <3>1. c \in ConnIds
      BY <1>5, <2>2 DEF ConnIds
    <3>2. conns[c] \in Conns
      BY <1>1, <3>1 DEF ConnIds
    <3>3. conns[c].req \in Seq(Resizers) /\ conns[c].rep \in Seq(BOOLEAN)
      BY <3>2, ConnFields
    <3>4. conns' \in Seq(Conns) /\ Carries(c, FALSE, conns[c].req, conns[c].rep)
      BY <1>1, <1>2, <2>2, <3>1, <3>3, ConnSet
    <3>5. QED
      BY <2>2, <3>4 DEF Carries
  <2>3. QED
    BY <2>1, <2>2
<1>7. RuncOnce'
  BY <1>1, <1>2, SameRunc
<1>8. Base'
  <2>1. Len(clients') = Len(clients)
    BY <1>4 DEF Leaves
  <2>2. QED
    BY <1>1, <1>2, <1>4, <1>6, <1>7, <2>1, ResizersFresh, MoveBase
<1>9. QED
  BY <1>2, <1>4, <1>6, <1>8 DEF Resets

\* Write keeps the types, and sends its request or gives the connection up.
LEMMA WriteBase ==
    ASSUME Base, Holders, NEW h \in Resizers, Write(h)
    PROVE  Base' /\ (Writes(h) \/ Resets(h, "err"))
<1> DEFINE n == Len(conns)
           k == mine[h]
           c == clients[k].conn
<1>1. /\ conns \in Seq(Conns) /\ n \in Nat /\ handler \in Handlers(n)
      /\ clients \in Seq(Clients(n)) /\ ttyControl \in 0..Len(clients)
      /\ mine \in [Calls -> 0..Len(clients)] /\ written \in Seq(Resizers)
      /\ h \in Calls /\ h # "create" /\ h # "delete" /\ Len(clients) \in Nat
  BY Types, ResizersFresh DEF Base, Calls
<1>2. /\ k \in 1..Len(clients) /\ k # None /\ pc[h] = "write" /\ clients[k].mu = h
      /\ Conn(h) = c /\ c # None /\ c \in ConnIds
  BY HolderFacts DEF Write
<1>3. CASE resets(h, "err")
  BY <1>1, <1>2, <1>3, ResetBase
<1>4. CASE ~resets(h, "err")
  <2>1. /\ PeerUp(c) /\ conns' = [conns EXCEPT ![c].req = Append(@, h)]
        /\ written' = Append(written, h) /\ Goto(h, "read")
        /\ UNCHANGED <<sock, handler, clients, ttyControl, mine, size, tracked, applied,
                       spared, dialled>>
    BY <1>2, <1>4 DEF Write
  <2>2. conns[c] \in Conns
    BY <1>1, <1>2 DEF ConnIds
  <2>3. /\ conns[c].req \in Seq(Resizers) /\ conns[c].rep \in Seq(BOOLEAN)
        /\ conns[c].open \in BOOLEAN
    BY <2>2, ConnFields
  <2>4. Append(conns[c].req, h) \in Seq(Resizers) /\ written' \in Seq(Resizers)
    BY <1>1, <2>1, <2>3
  <2>5. conns' = [conns EXCEPT ![c].req = Append(conns[c].req, h)]
    BY <1>1, <1>2, <2>1 DEF ConnIds
  <2>6. /\ conns' \in Seq(Conns)
        /\ Carries(c, conns[c].open, Append(conns[c].req, h), conns[c].rep)
    BY <1>1, <1>2, <2>3, <2>4, <2>5, ConnSet
  <2>7. Len(conns') = n
    BY <2>6 DEF Carries
  <2>8. RuncOnce'
    BY <1>1, <2>1, SameRunc
  <2>9. Base'
    BY <1>1, <1>2, <2>1, <2>4, <2>6, <2>7, <2>8, MoveBase
  <2>10. QED
    BY <1>2, <2>1, <2>6, <2>9 DEF Writes
<1>5. QED
  BY <1>3, <1>4

\* Resize reads the answer to its request, the only thing there is to read, and returns
\* what it says.
Replies(h, ok) ==
    LET k == mine[h]
        c == clients[k].conn
    IN  /\ Goto(h, IF ok THEN "ok" ELSE "err") /\ pc[h] = "read"
        /\ UNCHANGED <<handler, ttyControl, mine, size, history>>
        /\ clients[k].mu = h /\ c # None
        /\ conns[c].req = <<>> /\ conns[c].rep = <<ok>> /\ (ok => h \in applied)
        /\ Leaves(k, c, NoCall)
        /\ Carries(c, conns[c].open, <<>>, <<>>)

\* A reply the call takes is the answer to its own request.
LEMMA ReplyBase ==
    ASSUME Base, Holders, Exchange, NEW h \in Resizers, ReadReply(h)
    PROVE  Base' /\ \E ok \in BOOLEAN : Replies(h, ok)
<1> DEFINE n == Len(conns)
           k == mine[h]
           c == clients[k].conn
           rep == conns[c].rep
           seen == IF handler.framed THEN <<Head(rep)>> ELSE rep
<1>1. /\ conns \in Seq(Conns) /\ n \in Nat /\ handler \in Handlers(n)
      /\ clients \in Seq(Clients(n)) /\ ttyControl \in 0..Len(clients)
      /\ mine \in [Calls -> 0..Len(clients)] /\ written \in Seq(Resizers)
      /\ h \in Calls /\ h # "create" /\ h # "delete" /\ h # NoCall /\ Len(clients) \in Nat
  BY Types, ResizersFresh, NoCallFresh DEF Base, Calls
<1>2. /\ k \in 1..Len(clients) /\ k # None /\ pc[h] = "read" /\ clients[k].mu = h
      /\ Conn(h) = c /\ c # None /\ c \in ConnIds
  BY HolderFacts DEF ReadReply
<1>3. /\ rep # <<>> /\ clients' = [clients EXCEPT ![k].mu = NoCall]
      /\ Goto(h, IF seen = <<TRUE>> THEN "ok" ELSE "err")
      /\ conns' = [conns EXCEPT ![c].rep = SubSeq(@, Len(seen) + 1, Len(@))]
      /\ UNCHANGED <<sock, handler, ttyControl, mine, size, tracked, history,
                     applied, written>>
  <2>1. /\ rep # <<>> /\ clients' = [clients EXCEPT ![k].mu = NoCall]
        /\ Goto(h, IF seen = <<TRUE>> THEN "ok" ELSE "err")
        /\ conns' = [conns EXCEPT ![c].rep = SubSeq(@, Len(seen) + 1, Len(@))]
        /\ UNCHANGED <<sock, handler, ttyControl, mine, size, tracked, history>>
    BY <1>2 DEF ReadReply, Returns
  <2>2. QED
    BY <2>1 DEF history, requests
<1>4. PICK ok \in BOOLEAN : conns[c].req = <<>> /\ rep = <<ok>> /\ (ok => h \in applied)
  BY <1>1, <1>2, <1>3 DEF Exchange
<1>5. seen = <<ok>>
  <2>1. Head(<<ok>>) = ok
    OBVIOUS
  <2>2. <<Head(rep)>> = <<ok>>
    BY <1>4, <2>1
  <2>3. QED
    BY <1>4, <2>2
<1>6. (IF seen = <<TRUE>> THEN "ok" ELSE "err") = (IF ok THEN "ok" ELSE "err")
  <2>1. CASE ok = TRUE
    BY <1>5, <2>1, Zenon
  <2>2. CASE ok = FALSE
    <3>1. <<FALSE>>[1] = FALSE /\ <<TRUE>>[1] = TRUE
      OBVIOUS
    <3>2. <<FALSE>> # <<TRUE>>
      BY <3>1, Zenon
    <3>3. QED
      BY <1>5, <2>2, <3>2, Zenon
  <2>3. QED
    BY <2>1, <2>2, Zenon
<1>7. SubSeq(rep, Len(seen) + 1, Len(rep)) = <<>>
  <2>1. Len(<<ok>>) = 1 /\ SubSeq(<<ok>>, 2, 1) = <<>>
    OBVIOUS
  <2>2. QED
    BY <1>4, <1>5, <2>1
<1> HIDE DEF seen
<1>8. conns[c] \in Conns
  BY <1>1, <1>2 DEF ConnIds
<1>9. conns[c].req \in Seq(Resizers) /\ <<>> \in Seq(BOOLEAN) /\ conns[c].open \in BOOLEAN
  <2>1. <<>> \in Seq(BOOLEAN)
    OBVIOUS
  <2>2. QED
    BY <1>8, <2>1, ConnFields
<1>10. conns' = [conns EXCEPT ![c].rep = <<>>]
  <2>1. conns' = [conns EXCEPT ![c].rep = SubSeq(rep, Len(seen) + 1, Len(rep))]
    BY <1>1, <1>2, <1>3 DEF ConnIds
  <2>2. QED
    BY <1>7, <2>1
<1>11. conns' \in Seq(Conns) /\ Carries(c, conns[c].open, <<>>, <<>>)
  BY <1>1, <1>2, <1>4, <1>9, <1>10, ConnSet
<1>12. clients' \in Seq(Clients(n)) /\ Leaves(k, c, NoCall)
  BY <1>1, <1>2, <1>3, ClientSet DEF ConnIds
<1>13. Len(conns') = n /\ Len(clients') = Len(clients)
  BY <1>11, <1>12 DEF Carries, Leaves
<1>14. Goto(h, IF ok THEN "ok" ELSE "err")
  BY <1>3, <1>6
<1>15. RuncOnce'
  BY <1>1, <1>3, <1>14, SameRunc
<1>16. Base'
  BY <1>1, <1>2, <1>3, <1>11, <1>12, <1>13, <1>14, <1>15, MoveBase
<1>17. QED
  BY <1>2, <1>3, <1>4, <1>11, <1>12, <1>14, <1>16 DEF Replies

\* Delete takes the client away from the process.
Detaches ==
    /\ Goto("delete", IF ttyControl = None THEN "untrack" ELSE "lock")
    /\ pc["delete"] = "detach"
    /\ UNCHANGED <<handler, conns, clients, size, requests, spared>> /\ dialled' = Len(conns)
    /\ mine'["delete"] = ttyControl /\ ttyControl' = None
    /\ \A g \in Calls : g # "delete" => mine'[g] = mine[g]

\* closeTTYControl keeps the types, and detaches the client or resets it.
LEMMA CloseBase ==
    ASSUME Base, closeTTYControl
    PROVE  Base' /\ (Detaches \/ Resets("delete", "untrack"))
<1> DEFINE n == Len(conns)
<1>1. /\ conns \in Seq(Conns) /\ n \in Nat /\ handler \in Handlers(n)
      /\ clients \in Seq(Clients(n)) /\ ttyControl \in 0..Len(clients)
      /\ mine \in [Calls -> 0..Len(clients)] /\ written \in Seq(Resizers)
      /\ "delete" \in Calls /\ "delete" \notin Resizers /\ Len(clients) \in Nat
  BY Types, ResizersFresh DEF Base, Calls
<1>2. CASE /\ Step("delete", "detach", IF ttyControl = None THEN "untrack" ELSE "lock")
           /\ mine' = [mine EXCEPT !["delete"] = ttyControl]
           /\ ttyControl' = None
           /\ dialled' = Len(conns)
           /\ UNCHANGED <<sock, handler, conns, clients, size, tracked, requests, spared>>
  <2>1. PICK l : /\ l = IF ttyControl = None THEN "untrack" ELSE "lock"
                 /\ Goto("delete", l)
    BY <1>2 DEF Step
  <2>2. /\ mine' \in [Calls -> 0..Len(clients)] /\ mine'["delete"] = ttyControl
        /\ \A g \in Calls : g # "delete" => mine'[g] = mine[g]
    BY <1>1, <1>2
  <2>3. RuncOnce'
    BY <1>1, <1>2, <2>1, SameRunc
  <2>4. UNCHANGED <<applied, written>> /\ ttyControl' \in 0..Len(clients)
    BY <1>1, <1>2 DEF requests, None
  <2>5. Base'
    BY <1>1, <1>2, <2>1, <2>2, <2>3, <2>4, MoveBase
  <2>6. QED
    BY <1>2, <2>1, <2>2, <2>5 DEF Detaches, Step
<1>3. CASE /\ pc["delete"] = "lock" /\ clients[mine["delete"]].mu = NoCall
           /\ resets("delete", "untrack")
  <2>1. mine["delete"] \in 1..Len(clients)
    BY <1>1, <1>3 DEF Base, Where, None
  <2>2. QED
    BY <1>3, <2>1, ResetBase
<1>4. QED
  BY <1>2, <1>3 DEF closeTTYControl

-----------------------------------------------------------------------------
(***************************************************************************)
(* Each kind of step keeps the invariant about clients and connections.    *)
(***************************************************************************)
\* Where everybody is after one call has moved.
LEMMA Moved ==
    ASSUME Base, NEW h \in Calls, NEW l, Goto(h, l)
    PROVE  /\ pc'[h] = l /\ \A g \in Calls : g # h => pc'[g] = pc[g]
           /\ Resizers \subseteq Calls /\ "create" \in Calls /\ "delete" \in Calls
           /\ "create" \notin Resizers /\ "delete" \notin Resizers /\ NoCall \notin Resizers
BY ResizersFresh, NoCallFresh DEF Base, StateTypes, Goto, Calls

\* A client's connection is one that was dialled.
LEMMA ConnKnown ==
    ASSUME Base
    PROVE  \A k \in 1..Len(clients) : clients[k].conn # None => clients[k].conn \in ConnIds
<1>1. \A k \in 1..Len(clients) : clients[k] \in Clients(Len(conns))
  BY Types DEF Base
<1>2. QED
  BY <1>1 DEF Clients, ConnIds

\* A step of the handler alone.
LEMMA QuietInv ==
    ASSUME AInv, Base', UNCHANGED <<client, pc, applied, spared, dialled>>,
           HandlerUp' => HandlerUp
    PROVE  AInv'
<1>1. UNCHANGED <<conns, clients, ttyControl, mine, pc, applied, spared, dialled>>
  BY DEF client
<1>2. Holders' /\ AckIsOwn'
  BY <1>1 DEF AInv, Holders, AckIsOwn
<1>3. Owned' /\ Latest'
  BY <1>1 DEF AInv, Owned, Latest, OneClient, ConnIds
<1>4. Closing'
  BY <1>1 DEF AInv, Closing
<1>5. Ending'
  BY <1>1 DEF AInv, Ending
<1>6. Exchange'
  BY <1>1 DEF AInv, Exchange
<1>7. QED
  BY <1>2, <1>3, <1>4, <1>5, <1>6 DEF AInv

\* A step before or after the use of a client.
LEMMA WalkInv ==
    ASSUME AInv, Base', NEW h \in Calls, NEW l, Walks(h, l)
    PROVE  AInv'
<1>1. Goto(h, l) /\ UNCHANGED <<conns, clients, ttyControl, mine, applied, dialled>>
  BY DEF Walks, client, requests
<1>2. /\ pc'[h] = l /\ \A g \in Calls : g # h => pc'[g] = pc[g]
      /\ Resizers \subseteq Calls /\ "create" \in Calls /\ "delete" \in Calls
      /\ "create" \notin Resizers /\ "delete" \notin Resizers /\ NoCall \notin Resizers
  BY <1>1, Moved DEF AInv
<1>3. h \in Resizers => pc[h] \notin {"write", "read"} /\ l \notin {"ok", "write", "read"}
  BY <1>2 DEF Walks
<1>4. Holders' /\ AckIsOwn'
  BY <1>1, <1>2, <1>3 DEF AInv, Holders, AckIsOwn
<1>5. Owned'
  BY <1>1 DEF AInv, Owned, ConnIds
<1>6. ASSUME h = "delete", pc[h] = "new"
      PROVE  Latest' /\ Ending' /\ Closing'
  <2>1. /\ pc'["delete"] = "detach" /\ pc["delete"] = "new" /\ pc'["create"] = pc["create"]
        /\ pc["create"] \in {"ok", "err"} /\ spared' \in BOOLEAN /\ (HandlerUp' => spared')
    BY <1>2, <1>6 DEF Walks
  <2>2. Ending' /\ Closing'
    BY <1>1, <2>1 DEF AInv, Ending, Closing
  <2>3. Latest'
    <3>1. OneClient
      BY <2>1 DEF AInv, Ending, OneClient
    <3>2. QED
      BY <1>1, <3>1 DEF AInv, Latest
  <2>4. QED
    BY <2>2, <2>3
<1>7. ASSUME h # "delete" \/ pc[h] # "new"
      PROVE  Latest' /\ Ending' /\ Closing'
  <2>0. UNCHANGED spared
    BY <1>7 DEF Walks
  <2>1. Latest'
    BY <1>1, <2>0 DEF AInv, Latest, OneClient
  <2>2. CASE h \in Resizers
    <3>1. pc'["delete"] = pc["delete"] /\ pc'["create"] = pc["create"] /\ handler' = handler
      BY <1>2, <2>2 DEF Walks
    <3>2. Ending'
      BY <1>1, <2>0, <3>1 DEF AInv, Ending, HandlerUp
    <3>3. Closing'
      BY <1>1, <2>0, <3>1 DEF AInv, Closing
    <3>4. QED
      BY <2>1, <3>2, <3>3
  <2>3. CASE h = "create"
    <3>1. pc'["delete"] = pc["delete"] /\ pc["create"] \notin {"ok", "err"}
      BY <1>2, <2>3 DEF Walks
    <3>2. pc["delete"] = "new"
      BY <3>1 DEF AInv, Ending
    <3>3. Ending'
      BY <1>1, <2>0, <3>1, <3>2 DEF AInv, Ending
    <3>4. Closing'
      BY <1>1, <3>1, <3>2 DEF Closing
    <3>5. QED
      BY <2>1, <3>3, <3>4
  <2>4. CASE h = "delete"
    <3>1. /\ pc'["delete"] = "ok" /\ pc["delete"] = "untrack" /\ pc'["create"] = pc["create"]
          /\ handler' = handler
      BY <1>2, <1>7, <2>4 DEF Walks
    <3>2. Ending'
      BY <1>1, <2>0, <3>1 DEF AInv, Ending, HandlerUp
    <3>3. Closing'
      BY <1>1, <2>0, <3>1 DEF AInv, Closing
    <3>4. QED
      BY <2>1, <3>2, <3>3
  <2>5. QED
    BY <2>2, <2>3, <2>4 DEF Calls
<1>8. Latest' /\ Ending' /\ Closing'
  BY <1>6, <1>7
<1>9. Exchange'
  <2> SUFFICES ASSUME NEW k \in 1..Len(clients), clients[k].conn # None
               PROVE  LET g == clients[k].mu
                          c == conns[clients[k].conn]
                      IN  IF g # NoCall /\ pc'[g] = "read"
                          THEN \/ c.req = <<g>> /\ c.rep = <<>>
                               \/ /\ c.req = <<>>
                                  /\ \E ok \in BOOLEAN : c.rep = <<ok>> /\ (ok => g \in applied)
                          ELSE c.req = <<>> /\ c.rep = <<>>
    BY <1>1 DEF Exchange
  <2>1. clients[k].mu # NoCall => pc'[clients[k].mu] = pc[clients[k].mu]
    BY <1>2, <1>3 DEF AInv, Holders
  <2>2. QED
    BY <2>1 DEF AInv, Exchange
<1>10. QED
  BY <1>4, <1>5, <1>8, <1>9 DEF AInv

\* The handler applies a request, or fails to, and answers.
LEMMA ServeInv ==
    ASSUME AInv, Serve
    PROVE  AInv'
<1>1. /\ Base' /\ UNCHANGED <<clients, ttyControl, mine, pc, spared, dialled>>
      /\ Len(conns') = Len(conns) /\ handler'.st = handler.st
  BY ServeBase DEF AInv
<1>2. PICK c \in handler.serving, ok \in BOOLEAN :
         /\ c \in ConnIds /\ conns[c].req # <<>> /\ Head(conns[c].req) \in Resizers
         /\ applied' = IF ok THEN applied \union {Head(conns[c].req)} ELSE applied
         /\ \A d \in ConnIds : d # c => conns'[d] = conns[d]
         /\ conns'[c].open = conns[c].open
         /\ conns'[c].req = Tail(conns[c].req)
         /\ conns'[c].rep = IF conns[c].open THEN Append(conns[c].rep, ok)
                            ELSE conns[c].rep
  BY ServeBase DEF AInv
<1>3. applied \subseteq applied'
  BY <1>2
<1>4. Holders' /\ AckIsOwn'
  BY <1>1, <1>3 DEF AInv, Holders, AckIsOwn
<1>5. ConnIds' = ConnIds /\ \A d \in ConnIds : conns'[d].open = conns[d].open
  BY <1>1, <1>2 DEF ConnIds
<1>6. Owned'
  <2>1. \A k \in 1..Len(clients) : clients[k].conn # None => clients[k].conn \in ConnIds
    BY ConnKnown DEF AInv
  <2>2. QED
    BY <1>1, <1>5, <2>1 DEF AInv, Owned
<1>7. Latest' /\ Ending' /\ Closing'
  <2>1. Latest'
    BY <1>1 DEF AInv, Latest, OneClient
  <2>2. Ending'
    BY <1>1 DEF AInv, Ending, HandlerUp
  <2>3. Closing'
    BY <1>1 DEF AInv, Closing
  <2>4. QED
    BY <2>1, <2>2, <2>3
<1>8. Exchange'
  <2> SUFFICES ASSUME NEW k \in 1..Len(clients), clients[k].conn # None
               PROVE  LET g == clients[k].mu
                          x == conns'[clients[k].conn]
                      IN  IF g # NoCall /\ pc[g] = "read"
                          THEN \/ x.req = <<g>> /\ x.rep = <<>>
                               \/ /\ x.req = <<>>
                                  /\ \E a \in BOOLEAN : x.rep = <<a>> /\ (a => g \in applied')
                          ELSE x.req = <<>> /\ x.rep = <<>>
    BY <1>1 DEF Exchange
  <2> DEFINE g == clients[k].mu
             d == clients[k].conn
  <2>1. d \in ConnIds /\ conns[d].open
    BY ConnKnown DEF AInv, Owned
  <2>2. CASE d # c
    <3>1. conns'[d] = conns[d]
      BY <1>2, <2>1, <2>2
    <3>2. QED
      BY <1>3, <3>1 DEF AInv, Exchange
  <2>3. CASE d = c
    <3>1. g # NoCall /\ pc[g] = "read" /\ conns[c].req = <<g>> /\ conns[c].rep = <<>>
      BY <1>2, <2>3 DEF AInv, Exchange
    <3>2. Head(<<g>>) = g /\ Tail(<<g>>) = <<>>
      OBVIOUS
    <3>3. Append(<<>>, ok) = <<ok>>
      OBVIOUS
    <3>4. conns'[c].req = <<>> /\ conns'[c].rep = <<ok>> /\ (ok => g \in applied')
      BY <1>2, <2>1, <2>3, <3>1, <3>2, <3>3
    <3>5. QED
      BY <2>3, <3>1, <3>4
  <2>4. QED
    BY <2>2, <2>3
<1>9. QED
  BY <1>1, <1>4, <1>6, <1>7, <1>8 DEF AInv

\* A resize gets the client of the process.
LEMMA FetchInv ==
    ASSUME AInv, Base', NEW h \in Resizers, Fetches(h)
    PROVE  AInv'
<1>1. /\ pc'[h] = "lock" /\ \A g \in Calls : g # h => pc'[g] = pc[g]
      /\ Resizers \subseteq Calls /\ "create" \in Calls /\ "delete" \in Calls
      /\ "create" \notin Resizers /\ "delete" \notin Resizers /\ NoCall \notin Resizers
      /\ pc[h] = "client" /\ UNCHANGED <<handler, conns, applied, spared, dialled>>
  BY Moved DEF AInv, Fetches, Calls, history, requests
<1>2. \A k \in 1..Len(clients') :
          \/ k \in 1..Len(clients) /\ clients'[k] = clients[k]
          \/ clients'[k].conn = None /\ clients'[k].mu = NoCall
  BY Types DEF AInv, Base, Fetches
<1>3. /\ Len(clients) \in Nat /\ Len(clients') \in Nat /\ Len(clients) <= Len(clients')
      /\ \A k \in 1..Len(clients) : k \in 1..Len(clients') /\ clients'[k] = clients[k]
  BY Types DEF AInv, Base, Fetches
<1>4. Holders'
  <2> SUFFICES ASSUME NEW k \in 1..Len(clients'), clients'[k].mu # NoCall
               PROVE  LET g == clients'[k].mu
                      IN  /\ g \in Resizers /\ mine'[g] = k /\ pc'[g] \in {"write", "read"}
                          /\ clients'[k].conn # None
    BY DEF Holders
  <2>1. k \in 1..Len(clients) /\ clients'[k] = clients[k]
    BY <1>2
  <2>2. /\ clients[k].mu \in Resizers /\ mine[clients[k].mu] = k
        /\ pc[clients[k].mu] \in {"write", "read"} /\ clients[k].conn # None
    BY <2>1 DEF AInv, Holders
  <2>3. clients[k].mu # h
    BY <1>1, <2>2
  <2>4. QED
    BY <1>1, <2>1, <2>2, <2>3 DEF Fetches
<1>5. AckIsOwn'
  BY <1>1 DEF AInv, AckIsOwn
<1>6. Owned'
  <2>1. ConnIds' = ConnIds
    BY <1>1 DEF ConnIds
  <2>2. \A k \in 1..Len(clients') : clients'[k].conn # None =>
            k \in 1..Len(clients) /\ clients'[k].conn = clients[k].conn
    BY <1>2
  <2>3. \A c \in ConnIds : conns[c].open => \E k \in 1..Len(clients') : clients'[k].conn = c
    BY <1>3 DEF AInv, Owned
  <2>4. QED
    BY <1>1, <2>1, <2>2, <2>3 DEF AInv, Owned
<1>7. Latest' /\ Ending' /\ Closing'
  <2>1. mine'["delete"] = mine["delete"] /\ pc'["delete"] = pc["delete"]
        /\ pc'["create"] = pc["create"]
    BY <1>1 DEF Fetches
  <2>2. pc["delete"] \in {"new", "detach"} => Len(clients') <= 1 /\ ttyControl' = Len(clients')
    BY <1>3 DEF AInv, Ending, Fetches, None
  <2>3. \A k \in 1..Len(clients') : clients'[k].conn # None =>
            k \in 1..Len(clients) /\ clients'[k].conn = clients[k].conn
    BY <1>2
  <2>4. Ending'
    BY <1>1, <2>1, <2>2 DEF AInv, Ending, HandlerUp
  <2>5. Closing'
    BY <1>1, <2>1, <2>3 DEF AInv, Closing
  <2>6. OneClient' => OneClient
    BY <1>1, <1>3 DEF OneClient
  <2>7. Latest'
    BY <1>1, <2>3, <2>6 DEF AInv, Latest
  <2>8. QED
    BY <2>4, <2>5, <2>7
<1>8. Exchange'
  <2> SUFFICES ASSUME NEW k \in 1..Len(clients'), clients'[k].conn # None
               PROVE  LET g == clients'[k].mu
                          c == conns[clients'[k].conn]
                      IN  IF g # NoCall /\ pc'[g] = "read"
                          THEN \/ c.req = <<g>> /\ c.rep = <<>>
                               \/ /\ c.req = <<>>
                                  /\ \E ok \in BOOLEAN : c.rep = <<ok>> /\ (ok => g \in applied)
                          ELSE c.req = <<>> /\ c.rep = <<>>
    BY <1>1 DEF Exchange
  <2>1. k \in 1..Len(clients) /\ clients'[k] = clients[k]
    BY <1>2
  <2>2. clients[k].mu # NoCall => pc'[clients[k].mu] = pc[clients[k].mu]
    BY <1>1, <2>1 DEF AInv, Holders
  <2>3. QED
    BY <2>1, <2>2 DEF AInv, Exchange
<1>9. QED
  BY <1>4, <1>5, <1>6, <1>7, <1>8 DEF AInv

\* A resize holds the connected client.
LEMMA TakeInv ==
    ASSUME AInv, Base', NEW h \in Resizers, Takes(h)
    PROVE  AInv'
<1> DEFINE m == mine[h]
<1>1. /\ pc'[h] = "write" /\ \A g \in Calls : g # h => pc'[g] = pc[g]
      /\ Resizers \subseteq Calls /\ "create" \in Calls /\ "delete" \in Calls
      /\ "create" \notin Resizers /\ "delete" \notin Resizers /\ NoCall \notin Resizers
      /\ pc[h] = "lock" /\ UNCHANGED <<handler, conns, ttyControl, mine, applied, spared,
                                        dialled>>
  BY Moved DEF AInv, Takes, Calls, history, requests
<1>2. /\ m \in 1..Len(clients) /\ Len(clients') = Len(clients)
      /\ \A k \in 1..Len(clients) : k # m => clients'[k] = clients[k]
      /\ \A k \in 1..Len(clients) : clients'[k].conn = clients[k].conn
      /\ clients[m].mu = NoCall /\ clients'[m].mu = h /\ clients[m].conn # None
  BY DEF Takes, Leaves
<1>3. ASSUME NEW k \in 1..Len(clients), clients[k].mu # NoCall
      PROVE  /\ clients[k].mu # h /\ clients[k].mu \in Resizers
             /\ pc'[clients[k].mu] = pc[clients[k].mu]
  BY <1>1, <1>3 DEF AInv, Holders
<1>4. Holders'
  BY <1>1, <1>2, <1>3 DEF AInv, Holders
<1>5. AckIsOwn'
  BY <1>1 DEF AInv, AckIsOwn
<1>6. Owned'
  BY <1>1, <1>2 DEF AInv, Owned, ConnIds
<1>7. Latest' /\ Ending' /\ Closing'
  <2>1. Latest'
    BY <1>1, <1>2 DEF AInv, Latest, OneClient
  <2>2. Ending'
    BY <1>1, <1>2 DEF AInv, Ending, HandlerUp
  <2>3. Closing'
    BY <1>1, <1>2 DEF AInv, Closing
  <2>4. QED
    BY <2>1, <2>2, <2>3
<1>8. Exchange'
  <2> SUFFICES ASSUME NEW k \in 1..Len(clients), clients[k].conn # None
               PROVE  LET g == clients'[k].mu
                          c == conns[clients[k].conn]
                      IN  IF g # NoCall /\ pc'[g] = "read"
                          THEN \/ c.req = <<g>> /\ c.rep = <<>>
                               \/ /\ c.req = <<>>
                                  /\ \E ok \in BOOLEAN : c.rep = <<ok>> /\ (ok => g \in applied)
                          ELSE c.req = <<>> /\ c.rep = <<>>
    BY <1>1, <1>2 DEF Exchange
  <2>1. CASE k = m
    BY <1>1, <1>2, <2>1 DEF AInv, Exchange
  <2>2. CASE k # m
    <3>1. clients'[k] = clients[k]
      BY <1>2, <2>2
    <3>2. clients[k].mu # NoCall => pc'[clients[k].mu] = pc[clients[k].mu]
      BY <1>3
    <3>3. QED
      BY <3>1, <3>2 DEF AInv, Exchange
  <2>3. QED
    BY <2>1, <2>2
<1>9. QED
  BY <1>4, <1>5, <1>6, <1>7, <1>8 DEF AInv

\* A resize dials.  The handler is up, so that Delete has not begun or its kill failed.
LEMMA DialInv ==
    ASSUME AInv, Base', NEW h \in Resizers, Dials(h)
    PROVE  AInv'
<1> DEFINE m == mine[h]
           d == Len(conns')
<1>1. /\ pc'[h] = "write" /\ \A g \in Calls : g # h => pc'[g] = pc[g]
      /\ Resizers \subseteq Calls /\ "create" \in Calls /\ "delete" \in Calls
      /\ "create" \notin Resizers /\ "delete" \notin Resizers /\ NoCall \notin Resizers
      /\ pc[h] = "lock" /\ UNCHANGED <<ttyControl, mine, applied, spared, dialled>>
      /\ HandlerUp
  BY Moved DEF AInv, Dials, Calls, history, requests
<1>2. /\ m \in 1..Len(clients) /\ Len(clients') = Len(clients) /\ Len(clients) \in Nat
      /\ \A k \in 1..Len(clients) : k # m => clients'[k] = clients[k]
      /\ clients'[m].conn = d /\ clients'[m].mu = h
      /\ clients[m].conn = None /\ clients[m].mu = NoCall
  BY Types DEF AInv, Base, Dials, Leaves
<1>3. /\ Len(conns) \in Nat /\ d = Len(conns) + 1 /\ d # None
      /\ conns'[d].open /\ conns'[d].req = <<>> /\ conns'[d].rep = <<>>
      /\ \A c \in ConnIds : conns'[c] = conns[c]
      /\ \A c \in ConnIds' : c \in ConnIds \/ c = d
      /\ ConnIds \subseteq ConnIds' /\ d \in ConnIds' /\ d \notin ConnIds
  BY Types DEF AInv, Base, Dials, None, ConnIds
<1>4. ASSUME NEW k \in 1..Len(clients), k # m, clients[k].conn # None
      PROVE  /\ clients[k].conn \in ConnIds /\ clients[k].conn # d
             /\ conns'[clients[k].conn] = conns[clients[k].conn]
  BY <1>3, <1>4, ConnKnown DEF AInv
<1>5. ASSUME NEW k \in 1..Len(clients), clients[k].mu # NoCall
      PROVE  /\ clients[k].mu # h /\ clients[k].mu \in Resizers
             /\ pc'[clients[k].mu] = pc[clients[k].mu]
  BY <1>1, <1>5 DEF AInv, Holders
<1>6. Holders'
  BY <1>1, <1>2, <1>3, <1>5 DEF AInv, Holders
<1>7. AckIsOwn'
  BY <1>1 DEF AInv, AckIsOwn
<1>8. Owned'
  <2>1. ASSUME NEW k \in 1..Len(clients'), clients'[k].conn # None
        PROVE  /\ conns'[clients'[k].conn].open
               /\ \A j \in 1..Len(clients') : clients'[j].conn = clients'[k].conn => j = k
    <3>1. CASE k = m
      BY <1>2, <1>3, <1>4, <3>1
    <3>2. CASE k # m
      <4>1. clients'[k] = clients[k] /\ clients[k].conn # None
        BY <1>2, <2>1, <3>2
      <4>2. conns'[clients'[k].conn].open
        BY <1>2, <1>4, <3>2, <4>1 DEF AInv, Owned
      <4>3. \A j \in 1..Len(clients') : clients'[j].conn = clients'[k].conn => j = k
        BY <1>2, <1>4, <3>2, <4>1 DEF AInv, Owned
      <4>4. QED
        BY <4>2, <4>3
    <3>3. QED
      BY <3>1, <3>2
  <2>2. ASSUME NEW c \in ConnIds', conns'[c].open
        PROVE  \E k \in 1..Len(clients') : clients'[k].conn = c
    <3>1. CASE c = d
      BY <1>2, <3>1
    <3>2. CASE c \in ConnIds
      <4>1. PICK k \in 1..Len(clients) : clients[k].conn = c
        BY <1>3, <2>2, <3>2 DEF AInv, Owned
      <4>2. k # m
        BY <1>2, <3>2, <4>1 DEF ConnIds, None
      <4>3. QED
        BY <1>2, <4>1, <4>2
    <3>3. QED
      BY <1>3, <3>1, <3>2
  <2>3. QED
    BY <2>1, <2>2 DEF Owned
<1>9. Latest' /\ Ending' /\ Closing'
  <2>1. /\ pc'["delete"] = pc["delete"] /\ pc'["create"] = pc["create"]
        /\ handler'.st = handler.st /\ mine'["delete"] = mine["delete"]
    BY <1>1 DEF Dials
  <2>2. dialled \in Nat /\ dialled <= Len(conns) /\ spared \in BOOLEAN
        /\ (pc["delete"] # "new" => spared) /\ (pc["delete"] = "new" => Len(clients) <= 1)
    BY <1>1 DEF AInv, Ending
  <2>3. Ending'
    BY <1>1, <1>2, <1>3, <2>1 DEF AInv, Ending, HandlerUp
  <2>4. Closing'
    <3>1. d > dialled
      BY <1>3, <2>2
    <3>2. QED
      BY <1>1, <1>2, <2>1, <2>2, <3>1 DEF AInv, Closing
  <2>5. Latest'
    <3>1. OneClient' => Len(clients) <= 1
      BY <1>1, <1>2, <2>2 DEF OneClient
    <3>2. Len(clients) <= 1 => \A j \in 1..Len(clients) : j = m
      BY <1>2
    <3>3. QED
      BY <1>2, <3>1, <3>2 DEF Latest
  <2>6. QED
    BY <2>3, <2>4, <2>5
<1>10. Exchange'
  <2> SUFFICES ASSUME NEW k \in 1..Len(clients), clients'[k].conn # None
               PROVE  LET g == clients'[k].mu
                          c == conns'[clients'[k].conn]
                      IN  IF g # NoCall /\ pc'[g] = "read"
                          THEN \/ c.req = <<g>> /\ c.rep = <<>>
                               \/ /\ c.req = <<>>
                                  /\ \E ok \in BOOLEAN : c.rep = <<ok>> /\ (ok => g \in applied)
                          ELSE c.req = <<>> /\ c.rep = <<>>
    BY <1>1, <1>2 DEF Exchange
  <2>1. CASE k = m
    BY <1>1, <1>2, <1>3, <2>1
  <2>2. CASE k # m
    <3>1. clients'[k] = clients[k] /\ conns'[clients[k].conn] = conns[clients[k].conn]
      BY <1>2, <1>4, <2>2
    <3>2. clients[k].mu # NoCall => pc'[clients[k].mu] = pc[clients[k].mu]
      BY <1>5
    <3>3. QED
      BY <3>1, <3>2 DEF AInv, Exchange
  <2>3. QED
    BY <2>1, <2>2
<1>11. QED
  BY <1>6, <1>7, <1>8, <1>9, <1>10 DEF AInv

\* A resize writes its request.
LEMMA WriteInv ==
    ASSUME AInv, Base', NEW h \in Resizers, Writes(h)
    PROVE  AInv'
<1> DEFINE m == mine[h]
           d == clients[m].conn
<1>1. /\ pc'[h] = "read" /\ \A g \in Calls : g # h => pc'[g] = pc[g]
      /\ Resizers \subseteq Calls /\ "create" \in Calls /\ "delete" \in Calls
      /\ "create" \notin Resizers /\ "delete" \notin Resizers /\ NoCall \notin Resizers
      /\ pc[h] = "write"
      /\ UNCHANGED <<handler, clients, ttyControl, mine, applied, spared, dialled>>
  BY Moved DEF AInv, Writes, Calls
<1>2. /\ m \in 1..Len(clients) /\ clients[m].mu = h /\ d # None /\ d \in ConnIds
      /\ Len(conns') = Len(conns) /\ \A c \in ConnIds : c # d => conns'[c] = conns[c]
      /\ conns'[d].open = conns[d].open /\ conns'[d].req = Append(conns[d].req, h)
      /\ conns'[d].rep = conns[d].rep
  BY DEF Writes, Carries
<1>3. ASSUME NEW k \in 1..Len(clients), k # m, clients[k].conn # None
      PROVE  conns'[clients[k].conn] = conns[clients[k].conn]
  BY <1>2, <1>3, ConnKnown DEF AInv, Owned
<1>4. Holders'
  BY <1>1 DEF AInv, Holders
<1>5. AckIsOwn'
  BY <1>1 DEF AInv, AckIsOwn
<1>6. Owned'
  <2>1. ConnIds' = ConnIds /\ \A c \in ConnIds : conns'[c].open = conns[c].open
    BY <1>2 DEF ConnIds
  <2>2. \A k \in 1..Len(clients) : clients[k].conn # None => clients[k].conn \in ConnIds
    BY ConnKnown DEF AInv
  <2>3. QED
    BY <1>1, <2>1, <2>2 DEF AInv, Owned
<1>7. Latest' /\ Ending' /\ Closing'
  <2>1. Latest'
    BY <1>1, <1>2 DEF AInv, Latest, OneClient
  <2>2. Ending'
    BY <1>1, <1>2 DEF AInv, Ending, HandlerUp
  <2>3. Closing'
    BY <1>1 DEF AInv, Closing
  <2>4. QED
    BY <2>1, <2>2, <2>3
<1>8. Exchange'
  <2> SUFFICES ASSUME NEW k \in 1..Len(clients), clients[k].conn # None
               PROVE  LET g == clients[k].mu
                          c == conns'[clients[k].conn]
                      IN  IF g # NoCall /\ pc'[g] = "read"
                          THEN \/ c.req = <<g>> /\ c.rep = <<>>
                               \/ /\ c.req = <<>>
                                  /\ \E ok \in BOOLEAN : c.rep = <<ok>> /\ (ok => g \in applied)
                          ELSE c.req = <<>> /\ c.rep = <<>>
    BY <1>1 DEF Exchange
  <2>1. CASE k = m
    <3>1. conns[d].req = <<>> /\ conns[d].rep = <<>>
      BY <1>1, <1>2 DEF AInv, Exchange
    <3>2. Append(<<>>, h) = <<h>>
      OBVIOUS
    <3>3. conns'[d].req = <<h>> /\ conns'[d].rep = <<>>
      BY <1>2, <3>1, <3>2
    <3>4. QED
      BY <1>1, <1>2, <2>1, <3>3
  <2>2. CASE k # m
    <3>1. conns'[clients[k].conn] = conns[clients[k].conn]
      BY <1>3, <2>2
    <3>2. clients[k].mu # NoCall => pc'[clients[k].mu] = pc[clients[k].mu]
      BY <1>1, <1>2, <2>2 DEF AInv, Holders
    <3>3. QED
      BY <3>1, <3>2 DEF AInv, Exchange
  <2>3. QED
    BY <2>1, <2>2
<1>9. QED
  BY <1>4, <1>5, <1>6, <1>7, <1>8 DEF AInv

\* A connection is closed and forgotten, by a resize whose exchange failed or by Delete.
LEMMA ResetInv ==
    ASSUME AInv, Base', NEW h \in Calls, NEW l, Resets(h, l)
    PROVE  AInv'
<1> DEFINE m == mine[h]
           d == clients[m].conn
<1>1. /\ pc'[h] = l /\ \A g \in Calls : g # h => pc'[g] = pc[g]
      /\ Resizers \subseteq Calls /\ "create" \in Calls /\ "delete" \in Calls
      /\ "create" \notin Resizers /\ "delete" \notin Resizers /\ NoCall \notin Resizers
      /\ UNCHANGED <<handler, ttyControl, mine, applied, spared, dialled>>
      /\ \/ h \in Resizers /\ l = "err" /\ clients[m].mu = h
         \/ h = "delete" /\ pc[h] = "lock" /\ l = "untrack" /\ clients[m].mu = NoCall
  BY Moved DEF AInv, Resets, history, requests
<1>2. /\ m \in 1..Len(clients) /\ Len(clients') = Len(clients)
      /\ \A k \in 1..Len(clients) : k # m => clients'[k] = clients[k]
      /\ clients'[m].mu = NoCall /\ clients'[m].conn = None
  BY DEF Resets, Leaves
<1>3. /\ Len(conns') = Len(conns)
      /\ \A c \in ConnIds : c # d => conns'[c] = conns[c]
      /\ d \in ConnIds => ~conns'[d].open
  <2>1. CASE d = None
    BY <2>1 DEF Resets, ConnIds, None
  <2>2. CASE d # None
    BY <2>2 DEF Resets, Carries
  <2>3. QED
    BY <2>1, <2>2
<1>4. ASSUME NEW k \in 1..Len(clients), k # m, clients[k].mu # NoCall
      PROVE  /\ clients[k].mu # h /\ clients[k].mu \in Resizers
             /\ pc'[clients[k].mu] = pc[clients[k].mu]
  BY <1>1, <1>4 DEF AInv, Holders
<1>5. Holders'
  BY <1>1, <1>2, <1>4 DEF AInv, Holders
<1>6. AckIsOwn'
  BY <1>1 DEF AInv, AckIsOwn
<1>7. ASSUME NEW k \in 1..Len(clients), k # m, clients[k].conn # None
      PROVE  /\ clients[k].conn \in ConnIds /\ clients[k].conn # d
             /\ conns'[clients[k].conn] = conns[clients[k].conn]
  BY <1>2, <1>3, <1>7, ConnKnown DEF AInv, Owned
<1>8. Owned'
  <2>1. \A k \in 1..Len(clients') : clients'[k].conn # None =>
            /\ k # m /\ clients'[k] = clients[k] /\ clients[k].conn # None
    BY <1>2
  <2>2. ConnIds' = ConnIds
    BY <1>3 DEF ConnIds
  <2>3. \A c \in ConnIds : conns'[c].open => c # d /\ conns[c].open
    BY <1>3
  <2>4. \A c \in ConnIds : conns'[c].open => \E k \in 1..Len(clients') : clients'[k].conn = c
    <3> SUFFICES ASSUME NEW c \in ConnIds, conns'[c].open
                 PROVE  \E k \in 1..Len(clients') : clients'[k].conn = c
      OBVIOUS
    <3>1. PICK k \in 1..Len(clients) : clients[k].conn = c
      BY <2>3 DEF AInv, Owned
    <3>2. k # m
      BY <2>3, <3>1
    <3>3. QED
      BY <1>2, <3>1, <3>2
  <2>5. ASSUME NEW k \in 1..Len(clients'), clients'[k].conn # None
        PROVE  /\ conns'[clients'[k].conn].open
               /\ \A j \in 1..Len(clients') : clients'[j].conn = clients'[k].conn => j = k
    <3>1. k \in 1..Len(clients) /\ clients'[k].conn = clients[k].conn /\ k # m
      BY <1>2, <2>1, <2>5
    <3>2. conns'[clients'[k].conn].open
      BY <1>7, <2>5, <3>1 DEF AInv, Owned
    <3>3. \A j \in 1..Len(clients') : clients'[j].conn = clients'[k].conn => j = k
      BY <1>2, <2>1, <2>5, <3>1 DEF AInv, Owned
    <3>4. QED
      BY <3>2, <3>3
  <2>6. QED
    BY <2>2, <2>4, <2>5 DEF Owned
<1>9. Latest' /\ Ending' /\ Closing'
  <2>0. \A k \in 1..Len(clients) : clients'[k].conn # None =>
            k # m /\ clients'[k].conn = clients[k].conn
    BY <1>2
  <2>1. Latest'
    BY <1>1, <1>2, <1>3, <2>0 DEF AInv, Latest, OneClient
  <2>2. CASE h \in Resizers
    <3>1. pc'["delete"] = pc["delete"] /\ pc'["create"] = pc["create"]
      BY <1>1, <2>2
    <3>2. Ending'
      BY <1>1, <1>2, <1>3, <3>1 DEF AInv, Ending, HandlerUp
    <3>3. Closing'
      BY <1>1, <1>2, <2>0, <3>1 DEF AInv, Closing
    <3>4. QED
      BY <2>1, <3>2, <3>3
  <2>3. CASE h = "delete"
    <3>1. /\ pc["delete"] = "lock" /\ pc'["delete"] = "untrack" /\ m = mine["delete"]
          /\ pc'["create"] = pc["create"]
      BY <1>1, <2>3
    <3>2. Ending'
      BY <1>1, <1>3, <3>1 DEF AInv, Ending, HandlerUp
    <3>3. Closing'
      BY <1>1, <1>2, <2>0, <3>1 DEF AInv, Closing
    <3>4. QED
      BY <2>1, <3>2, <3>3
  <2>4. QED
    BY <1>1, <2>2, <2>3
<1>10. Exchange'
  <2> SUFFICES ASSUME NEW k \in 1..Len(clients), clients'[k].conn # None
               PROVE  LET g == clients'[k].mu
                          c == conns'[clients'[k].conn]
                      IN  IF g # NoCall /\ pc'[g] = "read"
                          THEN \/ c.req = <<g>> /\ c.rep = <<>>
                               \/ /\ c.req = <<>>
                                  /\ \E ok \in BOOLEAN : c.rep = <<ok>> /\ (ok => g \in applied)
                          ELSE c.req = <<>> /\ c.rep = <<>>
    BY <1>1, <1>2 DEF Exchange
  <2>1. k # m /\ clients'[k] = clients[k] /\ clients[k].conn # None
    BY <1>2
  <2>2. conns'[clients[k].conn] = conns[clients[k].conn]
    BY <1>7, <2>1
  <2>3. clients[k].mu # NoCall => pc'[clients[k].mu] = pc[clients[k].mu]
    BY <1>4, <2>1
  <2>4. QED
    BY <2>1, <2>2, <2>3 DEF AInv, Exchange
<1>11. QED
  BY <1>5, <1>6, <1>8, <1>9, <1>10 DEF AInv

\* A resize returns what the answer says, and keeps the connection.
LEMMA ReplyInv ==
    ASSUME AInv, Base', NEW h \in Resizers, NEW ok \in BOOLEAN, Replies(h, ok)
    PROVE  AInv'
<1> DEFINE m == mine[h]
           d == clients[m].conn
<1>1. /\ pc'[h] = (IF ok THEN "ok" ELSE "err") /\ \A g \in Calls : g # h => pc'[g] = pc[g]
      /\ Resizers \subseteq Calls /\ "create" \in Calls /\ "delete" \in Calls
      /\ "create" \notin Resizers /\ "delete" \notin Resizers /\ NoCall \notin Resizers
      /\ UNCHANGED <<handler, ttyControl, mine, applied, spared, dialled>>
      /\ clients[m].mu = h /\ d # None /\ (ok => h \in applied)
  BY Moved DEF AInv, Replies, Calls, history, requests
<1>2. /\ m \in 1..Len(clients) /\ Len(clients') = Len(clients)
      /\ \A k \in 1..Len(clients) : k # m => clients'[k] = clients[k]
      /\ clients'[m].mu = NoCall /\ clients'[m].conn = d
      /\ \A k \in 1..Len(clients) : clients'[k].conn = clients[k].conn
  BY DEF Replies, Leaves
<1>3. /\ Len(conns') = Len(conns) /\ d \in ConnIds
      /\ \A c \in ConnIds : conns'[c].open = conns[c].open
      /\ \A c \in ConnIds : c # d => conns'[c] = conns[c]
      /\ conns'[d].req = <<>> /\ conns'[d].rep = <<>>
  BY DEF Replies, Carries
<1>4. ASSUME NEW k \in 1..Len(clients), k # m, clients[k].conn # None
      PROVE  conns'[clients[k].conn] = conns[clients[k].conn]
  BY <1>2, <1>3, <1>4, ConnKnown DEF AInv, Owned
<1>5. Holders'
  BY <1>1, <1>2 DEF AInv, Holders
<1>6. AckIsOwn'
  BY <1>1 DEF AInv, AckIsOwn
<1>7. Owned'
  <2>1. ConnIds' = ConnIds
    BY <1>3 DEF ConnIds
  <2>2. \A k \in 1..Len(clients) : clients[k].conn # None => clients[k].conn \in ConnIds
    BY ConnKnown DEF AInv
  <2>3. \A k \in 1..Len(clients') : clients'[k].conn # None =>
            /\ conns'[clients'[k].conn].open
            /\ \A j \in 1..Len(clients') : clients'[j].conn = clients'[k].conn => j = k
    BY <1>2, <1>3, <2>2 DEF AInv, Owned
  <2>4. \A c \in ConnIds : conns'[c].open => \E k \in 1..Len(clients') : clients'[k].conn = c
    BY <1>2, <1>3 DEF AInv, Owned
  <2>5. QED
    BY <2>1, <2>3, <2>4 DEF Owned
<1>8. Latest' /\ Ending' /\ Closing'
  <2>1. Latest'
    BY <1>1, <1>2, <1>3 DEF AInv, Latest, OneClient
  <2>2. Ending'
    BY <1>1, <1>2, <1>3 DEF AInv, Ending, HandlerUp
  <2>3. Closing'
    BY <1>1, <1>2 DEF AInv, Closing
  <2>4. QED
    BY <2>1, <2>2, <2>3
<1>9. Exchange'
  <2> SUFFICES ASSUME NEW k \in 1..Len(clients), clients[k].conn # None
               PROVE  LET g == clients'[k].mu
                          c == conns'[clients[k].conn]
                      IN  IF g # NoCall /\ pc'[g] = "read"
                          THEN \/ c.req = <<g>> /\ c.rep = <<>>
                               \/ /\ c.req = <<>>
                                  /\ \E a \in BOOLEAN : c.rep = <<a>> /\ (a => g \in applied)
                          ELSE c.req = <<>> /\ c.rep = <<>>
    BY <1>1, <1>2 DEF Exchange
  <2>1. CASE k = m
    BY <1>2, <1>3, <2>1
  <2>2. CASE k # m
    <3>1. clients'[k] = clients[k] /\ conns'[clients[k].conn] = conns[clients[k].conn]
      BY <1>2, <1>4, <2>2
    <3>2. clients[k].mu # NoCall => pc'[clients[k].mu] = pc[clients[k].mu]
      BY <1>1, <1>2, <2>2 DEF AInv, Holders
    <3>3. QED
      BY <3>1, <3>2 DEF AInv, Exchange
  <2>3. QED
    BY <2>1, <2>2
<1>10. QED
  BY <1>5, <1>6, <1>7, <1>8, <1>9 DEF AInv

\* Delete detaches the client, the only one there is.
LEMMA DetachInv ==
    ASSUME AInv, Base', Detaches
    PROVE  AInv'
<1>1. /\ pc'["delete"] = (IF ttyControl = None THEN "untrack" ELSE "lock")
      /\ \A g \in Calls : g # "delete" => pc'[g] = pc[g]
      /\ Resizers \subseteq Calls /\ "create" \in Calls /\ "delete" \in Calls
      /\ "create" \notin Resizers /\ "delete" \notin Resizers /\ NoCall \notin Resizers
      /\ UNCHANGED <<handler, conns, clients, applied, spared>> /\ dialled' = Len(conns)
      /\ pc["delete"] = "detach"
  BY Moved DEF AInv, Detaches, Calls, requests
<1>2. \A g \in Resizers : mine'[g] = mine[g] /\ pc'[g] = pc[g]
  BY <1>1 DEF Detaches
<1>3. Holders'
  BY <1>1, <1>2 DEF AInv, Holders
<1>4. AckIsOwn'
  BY <1>1, <1>2 DEF AInv, AckIsOwn
<1>5. Owned'
  BY <1>1 DEF AInv, Owned, ConnIds
<1>6. Latest' /\ Ending' /\ Closing'
  <2>1. Len(clients) <= 1 /\ ttyControl = Len(clients) /\ Len(clients) \in Nat
        /\ Len(conns) \in Nat
    BY <1>1, Types DEF AInv, Base, Ending
  <2>2. \A k \in 1..Len(clients) : ttyControl # None /\ k = ttyControl
    BY <2>1 DEF None
  <2>3. pc'["create"] = pc["create"] /\ mine'["delete"] = ttyControl
    BY <1>1 DEF Detaches
  <2>4. Latest'
    BY <1>1 DEF AInv, Latest, OneClient
  <2>5. Ending'
    BY <1>1, <2>1, <2>3 DEF AInv, Ending, HandlerUp
  <2>6. Closing'
    BY <1>1, <2>2, <2>3 DEF Closing
  <2>7. QED
    BY <2>4, <2>5, <2>6
<1>7. Exchange'
  <2>1. \A k \in 1..Len(clients) : clients[k].mu # NoCall =>
            pc'[clients[k].mu] = pc[clients[k].mu]
    BY <1>2 DEF AInv, Holders
  <2>2. QED
    BY <1>1, <2>1 DEF AInv, Exchange
<1>8. QED
  BY <1>3, <1>4, <1>5, <1>6, <1>7 DEF AInv

\* Every step is of one of these kinds.
Quiet == HandlerStarts \/ HandlerExits \/ HandlerHandshake \/ Accept \/ ServeEnd
Uses(h) == \/ Fetches(h) \/ Takes(h) \/ Dials(h) \/ Writes(h)
           \/ \E ok \in BOOLEAN : Replies(h, ok)

\* No step of the specification is left out.
LEMMA Kinds ==
    ASSUME AInv, Next
    PROVE  /\ Base'
           /\ \/ Quiet \/ Serve \/ Detaches
              \/ \E h \in Calls : \E l : Walks(h, l) \/ Resets(h, l)
              \/ \E h \in Resizers : Uses(h)
<1>1. /\ Base /\ Holders /\ Exchange /\ "create" \in Calls /\ "delete" \in Calls
      /\ Resizers \subseteq Calls /\ spared \in BOOLEAN
  BY DEF AInv, Calls, Ending
<1>2. CASE Quiet
  BY <1>1, <1>2, HandlerBase DEF Quiet
<1>3. CASE Serve
  BY <1>1, <1>3, ServeBase
<1>4. CASE RuncConnects \/ AwaitTTY \/ StopTTY \/ Console
  BY <1>1, <1>4, CreateBase
<1>5. CASE StartTTY("m_start", "m_reset") \/ StartTTY("m_reset", "m_stop")
  BY <1>1, <1>5, StartBase
<1>6. CASE \/ ttySockPath("create", "new", "m_console")
           \/ makeSockPath("create", "m_console")
           \/ ttySockPath("create", "m_path", "m_start")
  <2>1. "m_console" \in Makes /\ "m_start" \in Makes
    BY DEF Makes
  <2>2. QED
    BY <1>1, <1>6, <2>1, PathBase
<1>7. ASSUME NEW h \in Resizers, ResizePty(h)
      PROVE  Base' /\ ((\E l : Walks(h, l) \/ Resets(h, l)) \/ Uses(h))
  <2>1. h \in Calls
    BY <1>1
  <2>2. CASE Lookup(h)
    BY <1>1, <2>2, LookupBase
  <2>3. CASE ttySockPath(h, "path", "client") \/ makeSockPath(h, "client")
    BY <1>1, <2>1, <2>3, PathBase
  <2>4. CASE ResizePTY(h)
    BY <1>1, <2>4, FetchBase DEF Uses
  <2>5. CASE dial(h)
    BY <1>1, <2>5, DialBase DEF Uses
  <2>6. CASE Write(h)
    BY <1>1, <2>6, WriteBase DEF Uses
  <2>7. CASE ReadReply(h)
    BY <1>1, <2>7, ReplyBase DEF Uses
  <2>8. CASE ReadFails(h)
    <3>1. Locked(h, "read") /\ resets(h, "err")
      BY <2>8 DEF ReadFails
    <3>2. mine[h] \in 1..Len(clients) /\ pc[h] = "read" /\ clients[mine[h]].mu = h
      BY <1>1, <3>1, HolderFacts
    <3>3. QED
      BY <1>1, <3>1, <3>2, ResetBase
  <2>9. QED
    BY <1>7, <2>2, <2>3, <2>4, <2>5, <2>6, <2>7, <2>8 DEF ResizePty
<1>8. CASE KillTTY \/ Untrack
  BY <1>1, <1>8, DeleteBase
<1>9. CASE closeTTYControl
  BY <1>1, <1>9, CloseBase
<1>10. QED
  BY <1>1, <1>2, <1>3, <1>4, <1>5, <1>6, <1>7, <1>8, <1>9
     DEF Next, Steps, Handler, makePty, Delete, Quiet

\* Nothing has happened yet.
LEMMA InitAInv == Init => AInv
<1> SUFFICES ASSUME Init PROVE AInv
  OBVIOUS
<1>1. /\ sockFile = NoCall /\ console = NoCall /\ path = [h \in Calls |-> NoCall]
      /\ conns = <<>> /\ clients = <<>> /\ ttyControl = 0 /\ mine = [h \in Calls |-> 0]
      /\ size = NoCall /\ tracked = TRUE /\ pc = [h \in Calls |-> "new"]
      /\ applied = {} /\ written = <<>> /\ Len(conns) = 0 /\ Len(clients) = 0
      /\ spared = FALSE /\ dialled = 0
  BY DEF Init, None
<1>2. PICK framed \in Framings :
        handler = [st |-> "none", path |-> NoCall, backlog |-> <<>>,
                   serving |-> {}, framed |-> framed]
  BY DEF Init, Framings
<1>3. handler \in Handlers(0)
  <2>1. <<>> \in Seq(1..0 \union {Runc}) /\ {} \in SUBSET (1..0)
    OBVIOUS
  <2>2. QED
    BY <1>2, <2>1 DEF Handlers
<1>4. "new" \in Labels /\ "create" \in Calls /\ "delete" \in Calls /\ Resizers \subseteq Calls
  BY DEF Labels, Finished, Calls
<1>5. StateTypes
  <2>1. <<>> \in Seq(Conns) /\ <<>> \in Seq(Clients(0)) /\ <<>> \in Seq(Resizers)
    OBVIOUS
  <2>2. tracked \in BOOLEAN
    BY <1>1
  <2>3. QED
    BY <1>1, <1>3, <1>4, <2>1, <2>2, Types
<1>6. Where
  BY <1>1, <1>4 DEF Where, Finds, Makes, Closes
<1>7. RuncOnce
  BY <1>2 DEF RuncOnce
<1>8. Holders /\ Owned /\ Latest /\ Exchange /\ AckIsOwn
  BY <1>1, <1>4 DEF Holders, Owned, Latest, Exchange, AckIsOwn, ConnIds
<1>9. Ending /\ Closing
  <2>1. pc["delete"] = "new"
    BY <1>1, <1>4
  <2>2. spared \in BOOLEAN /\ ~spared
    BY <1>1
  <2>3. QED
    BY <1>1, <2>1, <2>2 DEF Ending, Closing
<1>10. QED
  BY <1>5, <1>6, <1>7, <1>8, <1>9 DEF AInv, Base

\* Every step keeps the invariant.
LEMMA StepAInv == AInv /\ [Next]_vars => AInv'
<1> SUFFICES ASSUME AInv, [Next]_vars PROVE AInv'
  OBVIOUS
<1>1. CASE Next
  <2>1. Base'
    BY <1>1, Kinds
  <2>2. CASE Quiet
    <3>1. UNCHANGED <<client, pc, history>>
      BY <2>2 DEF Quiet, HandlerStarts, HandlerExits, HandlerHandshake, Accept, ServeEnd
    <3>2. HandlerUp' => HandlerUp
      BY <2>2, HandlerBase DEF Quiet, AInv
    <3>3. QED
      BY <2>1, <3>1, <3>2, QuietInv DEF history, requests
  <2>3. CASE Serve
    BY <2>3, ServeInv
  <2>4. CASE Detaches
    BY <2>1, <2>4, DetachInv
  <2>5. ASSUME NEW h \in Calls, NEW l, Walks(h, l) \/ Resets(h, l) PROVE AInv'
    BY <2>1, <2>5, WalkInv, ResetInv
  <2>6. ASSUME NEW h \in Resizers, Uses(h) PROVE AInv'
    BY <2>1, <2>6, FetchInv, TakeInv, DialInv, WriteInv, ReplyInv DEF Uses
  <2>7. QED
    BY <1>1, <2>2, <2>3, <2>4, <2>5, <2>6, Kinds
<1>2. CASE UNCHANGED vars
  <2>1. UNCHANGED <<sockFile, path, console, handler, conns, clients, ttyControl, mine, size,
                    tracked, pc, applied, written, spared, dialled>>
    BY <1>2 DEF vars, sock, client, history, requests
  <2>2. Base'
    BY <2>1 DEF AInv, Base, StateTypes, Where, RuncOnce, ConnIds, Calls
  <2>3. QED
    BY <2>1, <2>2, QuietInv DEF client, HandlerUp
<1>3. QED
  BY <1>1, <1>2

\* The terminal, its clients and their connections keep their types; a connection the
\* handler serves is one that was dialled.
THEOREM TypeCorrect == Safe => []TypeOK
<1> DEFINE Fixed == scenario \in Scenarios
<1>1. AInv /\ Fixed => TypeOK
  <2> SUFFICES ASSUME AInv, Fixed PROVE TypeOK
    OBVIOUS
  <2>1. StateTypes /\ Len(conns) \in Nat
    BY Types DEF AInv, Base
  <2>2. QED
    BY <2>1 DEF AInv, Ending, TypeOK
<1>2. Init => Fixed
  BY DEF Init
<1>3. Fixed /\ [Next]_vars => Fixed'
  BY DEF Next, vars
<1>4. QED
  BY <1>1, <1>2, <1>3, InitAInv, StepAInv, PTL DEF Safe

\* A Resize that reports success was applied by the handler, whatever timed out, was
\* closed or was left unframed before it (pty.go:96-101, 163-169).
THEOREM AckAlwaysOwn == Safe => []AckIsOwn
BY InitAInv, StepAInv, PTL DEF Safe, AInv

\* When Delete has returned no connection is open, however resizes raced it, but for
\* what was dialled after Delete detached the client to a handler its kill did not end:
\* the error of that KillUnit is ignored (delete.go:182, 248).
THEOREM DeleteLeavesNoConnection == Safe => []NoConnectionLeft
<1>1. AInv => NoConnectionLeft
  <2> SUFFICES ASSUME AInv, pc["delete"] = "ok", NEW c \in ConnIds, conns[c].open
               PROVE  spared /\ c > dialled
    BY DEF NoConnectionLeft
  <2>1. PICK k \in 1..Len(clients) : clients[k].conn = c
    BY DEF AInv, Owned
  <2>2. clients[k].conn # None
    BY <2>1 DEF ConnIds, None
  <2>3. QED
    BY <2>1, <2>2 DEF AInv, Closing
<1>2. QED
  BY <1>1, InitAInv, StepAInv, PTL DEF Safe

-----------------------------------------------------------------------------
(***************************************************************************)
(* The order of requests.                                                  *)
(***************************************************************************)
\* What the handler still holds.
LEMMA PeerUpAt ==
    ASSUME StateTypes, NEW c
    PROVE  PeerUp(c) <=> \/ c \in handler.serving
                         \/ \E n \in 1..Len(handler.backlog) : handler.backlog[n] = c
<1>1. handler.backlog \in Seq(ConnIds \union {Runc})
  BY DEF StateTypes
<1>2. Range(handler.backlog) = {handler.backlog[n] : n \in 1..Len(handler.backlog)}
  BY <1>1 DEF Range
<1>3. QED
  BY <1>2 DEF PeerUp

\* The handler takes connections off its backlog in order and forgets some, and runc's
\* is not one of them.
Advances ==
    \/ handler'.backlog \in {handler.backlog, <<>>, Append(handler.backlog, Runc)}
       /\ handler'.serving \subseteq handler.serving
    \/ /\ handler.backlog # <<>> /\ handler'.backlog = Tail(handler.backlog)
       /\ \/ handler'.serving \subseteq handler.serving
          \/ handler'.serving = {Head(handler.backlog)} /\ Head(handler.backlog) # Runc

\* Then the connections it has yet to serve stay in the order of their dials.
LEMMA AdvanceOrder ==
    ASSUME AInv, AInv', InOrder, Advances
    PROVE  InOrder' /\ \A c \in ConnIds : PeerUp(c)' => PeerUp(c)
<1> DEFINE b == handler.backlog
           bb == handler'.backlog
           N == Len(conns)
<1>1. StateTypes /\ StateTypes' /\ Base
  BY DEF AInv, Base
<1>2. /\ b \in Seq(1..N \union {Runc}) /\ N \in Nat /\ Runc = 0 /\ Len(b) \in Nat
      /\ \A n \in 1..Len(b) : b[n] \in 1..N \union {Runc}
      /\ handler.serving \subseteq 1..N
  <2>1. handler \in Handlers(N) /\ N \in Nat
    BY <1>1, Types
  <2>2. b \in Seq(1..N \union {Runc}) /\ handler.serving \subseteq 1..N
    BY <2>1 DEF Handlers
  <2>3. QED
    BY <2>1, <2>2 DEF Runc
<1>3. /\ \A m, n \in 1..Len(b) : m < n /\ b[n] # Runc => b[m] < b[n]
      /\ \A c \in handler.serving, n \in 1..Len(b) : b[n] # Runc => c < b[n]
      /\ \A c, d \in handler.serving : c = d
  BY DEF InOrder
<1>4. \A c : PeerUp(c) <=> \/ c \in handler.serving \/ \E n \in 1..Len(b) : b[n] = c
  BY <1>1, PeerUpAt
<1>5. \A c : PeerUp(c)' <=> \/ c \in handler'.serving \/ \E n \in 1..Len(bb) : bb[n] = c
  <2>1. bb \in Seq(ConnIds' \union {Runc})
    BY <1>1 DEF StateTypes
  <2>2. Range(bb) = {bb[n] : n \in 1..Len(bb)}
    BY <2>1 DEF Range
  <2>3. QED
    BY <2>2 DEF PeerUp
<1> SUFFICES /\ \A m, n \in 1..Len(bb) : m < n /\ bb[n] # Runc => bb[m] < bb[n]
             /\ \A c \in handler'.serving, n \in 1..Len(bb) : bb[n] # Runc => c < bb[n]
             /\ \A c, d \in handler'.serving : c = d
             /\ \A c \in 1..N : c \in handler'.serving \/ (\E n \in 1..Len(bb) : bb[n] = c)
                    => c \in handler.serving \/ \E n \in 1..Len(b) : b[n] = c
  BY <1>4, <1>5 DEF InOrder, ConnIds
<1>6. CASE bb = b /\ handler'.serving \subseteq handler.serving
  BY <1>3, <1>6
<1>7. CASE bb = <<>> /\ handler'.serving \subseteq handler.serving
  BY <1>3, <1>7
<1>8. CASE bb = Append(b, Runc) /\ handler'.serving \subseteq handler.serving
  <2>1. /\ Len(bb) = Len(b) + 1 /\ bb[Len(b) + 1] = Runc
        /\ \A n \in 1..Len(b) : bb[n] = b[n]
    BY <1>2, <1>8
  <2>2. \A n \in 1..Len(bb) : bb[n] # Runc => n \in 1..Len(b) /\ bb[n] = b[n]
    BY <1>2, <2>1
  <2>3. \A c \in 1..N : c # Runc
    BY <1>2
  <2>4. \A m, n \in 1..Len(bb) : m < n /\ bb[n] # Runc => bb[m] < bb[n]
    BY <1>2, <1>3, <2>1, <2>2
  <2>5. QED
    BY <1>3, <1>8, <2>2, <2>3, <2>4
<1>9. CASE b # <<>> /\ bb = Tail(b)
  <2>1. /\ Len(bb) = Len(b) - 1 /\ Head(b) = b[1] /\ 1 \in 1..Len(b)
        /\ \A n \in 1..Len(bb) : bb[n] = b[n + 1] /\ n + 1 \in 1..Len(b) /\ 1 < n + 1
    BY <1>1, <1>9, TailBacklog
  <2>2. \A m, n \in 1..Len(bb) : m < n /\ bb[n] # Runc => bb[m] < bb[n]
    <3> SUFFICES ASSUME NEW m \in 1..Len(bb), NEW n \in 1..Len(bb), m < n, bb[n] # Runc
                 PROVE  bb[m] < bb[n]
      OBVIOUS
    <3>1. m + 1 < n + 1 /\ b[n + 1] # Runc
      BY <2>1
    <3>2. b[m + 1] < b[n + 1]
      BY <1>3, <2>1, <3>1
    <3>3. QED
      BY <2>1, <3>2
  <2>3. CASE handler'.serving \subseteq handler.serving
    BY <1>3, <2>1, <2>2, <2>3
  <2>4. CASE handler'.serving = {Head(b)}
    BY <1>3, <2>1, <2>2, <2>4
  <2>5. QED
    BY <1>9, <2>3, <2>4 DEF Advances
<1>10. QED
  BY <1>6, <1>7, <1>8, <1>9 DEF Advances

\* A step that writes and applies nothing.
LEMMA StillRequests ==
    ASSUME SInv, AInv', InOrder', UNCHANGED <<size, requests>>, OneClient' => OneClient,
           \A c \in ConnIds' : conns'[c].req # <<>> =>
               c \in ConnIds /\ conns'[c].req = conns[c].req /\ (PeerUp(c)' => PeerUp(c)),
           \A m \in 1..Len(written) : pc'[written[m]] \in {"read", "ok", "err"}
    PROVE  SInv'
<1>1. UNCHANGED <<size, applied, written>>
  BY DEF requests
<1>2. WrittenOnce'
  BY <1>1 DEF SInv, WrittenOnce
<1>3. OneClient' => NotUndone'
  BY <1>1 DEF SInv, NotUndone
<1>4. \A f, g : Precedes(f, g)' <=> Precedes(f, g)
  BY <1>1 DEF Precedes
<1>5. \A g : <<g>> # <<>>
  OBVIOUS
<1>6. ASSUME OneClient' PROVE Pending'
  <2>0. Pending
    BY <1>6 DEF SInv
  <2>1. ASSUME NEW c \in ConnIds', NEW d \in ConnIds', NEW f \in Resizers, NEW g \in Resizers,
               c < d, conns'[c].req = <<f>>, conns'[d].req = <<g>>
        PROVE  Precedes(f, g)'
    <3>1. c \in ConnIds /\ d \in ConnIds /\ conns[c].req = <<f>> /\ conns[d].req = <<g>>
      BY <1>5, <2>1
    <3>2. Precedes(f, g)
      BY <2>0, <2>1, <3>1 DEF Pending
    <3>3. QED
      BY <1>4, <3>2
  <2>2. ASSUME NEW c \in ConnIds', NEW g \in Resizers, PeerUp(c)', conns'[c].req = <<g>>,
               NEW f \in applied
        PROVE  Precedes(f, g)'
    <3>1. c \in ConnIds /\ conns[c].req = <<g>> /\ PeerUp(c)
      BY <1>5, <2>2
    <3>2. Precedes(f, g)
      BY <2>0, <3>1 DEF Pending
    <3>3. QED
      BY <1>4, <3>2
  <2>3. QED
    BY <1>1, <2>1, <2>2 DEF Pending
<1>7. QED
  BY <1>2, <1>3, <1>6 DEF SInv

\* Two requests are not written before each other.
LEMMA PrecedesOnce ==
    ASSUME StateTypes, WrittenOnce, NEW m \in 1..Len(written), NEW n \in 1..Len(written),
           Precedes(written[m], written[n])
    PROVE  m < n
BY DEF Precedes, WrittenOnce

\* The handler serves the oldest request it holds.
LEMMA ServeOrder ==
    ASSUME SInv, Serve, AInv'
    PROVE  SInv'
<1>1. /\ UNCHANGED <<clients, pc, written, spared>>
      /\ Len(conns') = Len(conns) /\ handler'.backlog = handler.backlog
      /\ handler'.serving \subseteq handler.serving
  BY ServeBase DEF SInv, AInv
<1>2. PICK c \in handler.serving, ok \in BOOLEAN :
         /\ c \in ConnIds /\ conns[c].req # <<>>
         /\ size' = IF ok THEN Head(conns[c].req) ELSE size
         /\ applied' = IF ok THEN applied \union {Head(conns[c].req)} ELSE applied
         /\ \A d \in ConnIds : d # c => conns'[d] = conns[d]
         /\ conns'[c].req = Tail(conns[c].req)
  BY ServeBase DEF SInv, AInv
<1>3. /\ StateTypes /\ AInv /\ InOrder /\ WrittenOnce
      /\ OneClient' => OneClient /\ Pending /\ NotUndone
  BY <1>1 DEF SInv, AInv, Base, OneClient
<1>4. PICK k \in 1..Len(written) : conns[c].req = <<written[k]>>
  BY <1>2, <1>3 DEF WrittenOnce
<1> DEFINE g == written[k]
<1>5. Head(<<g>>) = g /\ Tail(<<g>>) = <<>> /\ g \in Resizers
  <2>1. written \in Seq(Resizers)
    BY <1>3 DEF StateTypes
  <2>2. QED
    BY <2>1
<1>6. /\ conns'[c].req = <<>> /\ size' = (IF ok THEN g ELSE size)
      /\ applied' = (IF ok THEN applied \union {g} ELSE applied)
  BY <1>2, <1>4, <1>5
<1>7. InOrder' /\ \A d \in ConnIds : PeerUp(d)' => PeerUp(d)
  BY <1>1, <1>3, AdvanceOrder DEF Advances
<1>8. ConnIds' = ConnIds /\ \A d \in ConnIds : conns'[d].req # <<>> =>
          d # c /\ conns'[d] = conns[d]
  BY <1>1, <1>2, <1>6 DEF ConnIds
<1>9. WrittenOnce'
  <2>1. \A f \in applied' : \E m \in 1..Len(written) : written[m] = f
    BY <1>3, <1>6 DEF WrittenOnce
  <2>2. \A d \in ConnIds : conns'[d].req # <<>> =>
            \E m \in 1..Len(written) : conns'[d].req = <<written[m]>>
    BY <1>3, <1>8 DEF WrittenOnce
  <2>3. QED
    BY <1>1, <1>3, <1>8, <2>1, <2>2 DEF WrittenOnce
<1>10. \A f, h : Precedes(f, h)' <=> Precedes(f, h)
  BY <1>1 DEF Precedes
<1>11. \A h : <<h>> # <<>>
  OBVIOUS
<1>12. PeerUp(c)
  BY <1>3, PeerUpAt
<1>13. ASSUME OneClient' PROVE Pending'
  <2>1. ASSUME NEW d \in ConnIds, NEW e \in ConnIds, NEW f \in Resizers, NEW h \in Resizers,
               d < e, conns'[d].req = <<f>>, conns'[e].req = <<h>>
        PROVE  Precedes(f, h)'
    <3>1. conns[d].req = <<f>> /\ conns[e].req = <<h>>
      BY <1>8, <1>11, <2>1
    <3>2. Precedes(f, h)
      BY <1>3, <1>13, <2>1, <3>1 DEF Pending
    <3>3. QED
      BY <1>10, <3>2
  <2>2. ASSUME NEW d \in ConnIds, NEW h \in Resizers, PeerUp(d)', conns'[d].req = <<h>>,
               NEW f \in applied'
        PROVE  Precedes(f, h)'
    <3>1. d # c /\ conns[d].req = <<h>> /\ PeerUp(d)
      BY <1>7, <1>8, <1>11, <2>2
    <3>2. CASE f \in applied
      <4>1. Precedes(f, h)
        BY <1>3, <1>13, <3>1, <3>2 DEF Pending
      <4>2. QED
        BY <1>10, <4>1
    <3>3. CASE f = g
      <4>1. d \notin handler.serving
        BY <1>3, <3>1 DEF InOrder
      <4>2. PICK n \in 1..Len(handler.backlog) : handler.backlog[n] = d
        BY <1>3, <3>1, <4>1, PeerUpAt
      <4>3. d # Runc
        BY DEF ConnIds, Runc
      <4>4. c < d
        BY <1>3, <4>2, <4>3 DEF InOrder
      <4>5. Precedes(g, h)
        BY <1>2, <1>3, <1>4, <1>5, <1>13, <3>1, <4>4 DEF Pending
      <4>6. QED
        BY <1>10, <3>3, <4>5
    <3>4. QED
      BY <1>6, <2>2, <3>2, <3>3
  <2>3. QED
    BY <1>8, <2>1, <2>2 DEF Pending
<1>14. ASSUME OneClient' PROVE NotUndone'
  <2> SUFFICES ASSUME NEW m \in 1..Len(written), NEW n \in 1..Len(written), m < n,
                      written[n] \in applied'
               PROVE  size' # written[m]
    BY <1>1 DEF NotUndone
  <2>1. CASE ~ok
    BY <1>3, <1>6, <1>14, <2>1 DEF NotUndone
  <2>2. CASE ok
    <3>1. SUFFICES ASSUME g = written[m] PROVE FALSE
      BY <1>6, <2>2
    <3>2. k = m
      BY <1>3, <3>1 DEF WrittenOnce
    <3>3. written[n] # g
      BY <1>3, <3>2 DEF WrittenOnce
    <3>4. written[n] \in applied
      BY <1>6, <3>3
    <3>5. Precedes(written[n], g)
      BY <1>2, <1>3, <1>4, <1>5, <1>12, <1>14, <3>4 DEF Pending
    <3>6. n < k
      BY <1>3, <3>5, PrecedesOnce
    <3>7. QED
      BY <3>2, <3>6
  <2>3. QED
    BY <2>1, <2>2
<1>15. QED
  BY <1>7, <1>9, <1>13, <1>14 DEF SInv

\* A new request is the youngest, and sits in the youngest connection.
LEMMA WriteOrder ==
    ASSUME SInv, NEW h \in Resizers, Writes(h), AInv'
    PROVE  SInv'
<1> DEFINE d == clients[mine[h]].conn
           w == Len(written) + 1
<1>1. /\ StateTypes /\ AInv /\ InOrder /\ WrittenOnce /\ Base /\ StateTypes'
      /\ OneClient' => OneClient /\ Pending /\ NotUndone
  BY DEF SInv, AInv, Base, OneClient, Writes
<1>2. /\ Goto(h, "read") /\ pc[h] = "write" /\ UNCHANGED <<handler, clients, size, applied>>
      /\ written' = Append(written, h) /\ d # None /\ d \in ConnIds
      /\ mine[h] \in 1..Len(clients) /\ clients[mine[h]].mu = h
      /\ Len(conns') = Len(conns) /\ \A c \in ConnIds : c # d => conns'[c] = conns[c]
      /\ conns'[d].req = Append(conns[d].req, h)
  BY DEF Writes, Carries
<1>3. /\ (OneClient' => d = Len(conns)) /\ conns'[d].req = <<h>> /\ Len(conns) \in Nat
  <2>1. OneClient' => d = Len(conns)
    BY <1>1, <1>2 DEF AInv, Latest
  <2>2. conns[d].req = <<>>
    <3>1. h # NoCall
      BY NoCallFresh
    <3>2. QED
      BY <1>1, <1>2, <3>1 DEF AInv, Exchange
  <2>3. Append(<<>>, h) = <<h>>
    OBVIOUS
  <2>4. QED
    BY <1>1, <1>2, <2>1, <2>2, <2>3, Types
<1>4. /\ written \in Seq(Resizers) /\ Len(written) \in Nat /\ Len(written') = w
      /\ written'[w] = h /\ \A m \in 1..Len(written) : written'[m] = written[m]
      /\ \A m \in 1..w : m \in 1..Len(written) \/ m = w
  <2>1. written \in Seq(Resizers)
    BY <1>1 DEF StateTypes
  <2>2. QED
    BY <1>2, <2>1
<1>5. \A m \in 1..Len(written) : written[m] # h
  BY <1>1, <1>2 DEF WrittenOnce
<1>6. /\ pc'[h] = "read" /\ \A g \in Resizers : g # h => pc'[g] = pc[g]
  BY <1>1, <1>2, Moved DEF Calls
<1>7. \A f, g : Precedes(f, g) => Precedes(f, g)'
  BY <1>4 DEF Precedes
<1>8. \A f : (\E m \in 1..Len(written) : written[m] = f) => Precedes(f, h)'
  <2> SUFFICES ASSUME NEW m \in 1..Len(written)
               PROVE  \E i, j \in 1..w : i < j /\ written'[i] = written[m] /\ written'[j] = h
    BY <1>4 DEF Precedes
  <2>1. m \in 1..w /\ w \in 1..w /\ m < w /\ written'[m] = written[m] /\ written'[w] = h
    BY <1>4
  <2>2. QED
    BY <2>1
<1>9. ConnIds' = ConnIds /\ \A c \in ConnIds : PeerUp(c)' <=> PeerUp(c)
  BY <1>2 DEF ConnIds, PeerUp
<1>10. InOrder'
  BY <1>1, <1>2 DEF InOrder
<1>11. WrittenOnce'
  <2>1. \A m, n \in 1..w : written'[m] = written'[n] => m = n
    BY <1>1, <1>4, <1>5 DEF WrittenOnce
  <2>2. \A m \in 1..w : pc'[written'[m]] \in {"read", "ok", "err"}
    <3>1. \A m \in 1..Len(written) : written[m] \in Resizers
      BY <1>4
    <3>2. QED
      BY <1>1, <1>4, <1>5, <1>6, <3>1 DEF WrittenOnce
  <2>3. \A f \in applied : \E m \in 1..w : written'[m] = f
    <3>1. \A m \in 1..Len(written) : m \in 1..w
      BY <1>4
    <3>2. QED
      BY <1>1, <1>4, <3>1 DEF WrittenOnce
  <2>4. \A c \in ConnIds : conns'[c].req # <<>> =>
            \E m \in 1..w : conns'[c].req = <<written'[m]>>
    <3> SUFFICES ASSUME NEW c \in ConnIds, conns'[c].req # <<>>
                 PROVE  \E m \in 1..w : conns'[c].req = <<written'[m]>>
      OBVIOUS
    <3>1. CASE c = d
      <4>1. w \in 1..w /\ conns'[c].req = <<written'[w]>>
        BY <1>3, <1>4, <3>1
      <4>2. QED
        BY <4>1
    <3>2. CASE c # d
      <4>1. conns[c].req # <<>> /\ conns'[c].req = conns[c].req
        BY <1>2, <3>2
      <4>2. PICK m \in 1..Len(written) : conns[c].req = <<written[m]>>
        BY <1>1, <4>1 DEF WrittenOnce
      <4>3. m \in 1..w /\ written'[m] = written[m]
        BY <1>4
      <4>4. QED
        BY <4>1, <4>2, <4>3
    <3>3. QED
      BY <3>1, <3>2
  <2>5. Len(written') = w /\ applied' = applied /\ ConnIds' = ConnIds
    BY <1>2, <1>4, <1>9
  <2>6. QED
    BY <2>1, <2>2, <2>3, <2>4, <2>5 DEF WrittenOnce
<1>12. \A g, f : <<g>> = <<f>> => g = f
  <2>1. \A g : <<g>>[1] = g
    OBVIOUS
  <2>2. QED
    BY <2>1, Zenon
<1>13. ASSUME OneClient' PROVE Pending'
  <2>1. ASSUME NEW c \in ConnIds, NEW e \in ConnIds, NEW f \in Resizers, NEW g \in Resizers,
               c < e, conns'[c].req = <<f>>, conns'[e].req = <<g>>
        PROVE  Precedes(f, g)'
    <3>1. c # d /\ conns[c].req = <<f>>
      BY <1>2, <1>3, <1>13, <2>1 DEF ConnIds
    <3>2. CASE e = d
      <4>1. g = h
        BY <1>3, <1>12, <2>1, <3>2
      <4>2. PICK m \in 1..Len(written) : conns[c].req = <<written[m]>>
        <5>1. conns[c].req # <<>>
          BY <3>1
        <5>2. QED
          BY <1>1, <5>1 DEF WrittenOnce
      <4>3. f = written[m]
        BY <1>12, <3>1, <4>2
      <4>4. QED
        BY <1>8, <4>1, <4>3
    <3>3. CASE e # d
      <4>1. conns[e].req = <<g>>
        BY <1>2, <2>1, <3>3
      <4>2. Precedes(f, g)
        BY <1>1, <1>13, <2>1, <3>1, <4>1 DEF Pending
      <4>3. QED
        BY <1>7, <4>2
    <3>4. QED
      BY <3>2, <3>3
  <2>2. ASSUME NEW c \in ConnIds, NEW g \in Resizers, PeerUp(c)', conns'[c].req = <<g>>,
               NEW f \in applied
        PROVE  Precedes(f, g)'
    <3>1. CASE c = d
      <4>1. g = h
        BY <1>3, <1>12, <2>2, <3>1
      <4>2. PICK m \in 1..Len(written) : written[m] = f
        BY <1>1 DEF WrittenOnce
      <4>3. QED
        BY <1>8, <4>1, <4>2
    <3>2. CASE c # d
      <4>1. conns[c].req = <<g>> /\ PeerUp(c)
        BY <1>2, <1>9, <2>2, <3>2
      <4>2. Precedes(f, g)
        BY <1>1, <1>13, <4>1 DEF Pending
      <4>3. QED
        BY <1>7, <4>2
    <3>3. QED
      BY <3>1, <3>2
  <2>3. QED
    BY <1>2, <1>9, <2>1, <2>2 DEF Pending
<1>14. ASSUME OneClient' PROVE NotUndone'
  <2> SUFFICES ASSUME NEW m \in 1..w, NEW n \in 1..w, m < n, written'[n] \in applied
               PROVE  size # written'[m]
    BY <1>2, <1>4 DEF NotUndone
  <2>1. h \notin applied
    BY <1>1, <1>5 DEF WrittenOnce
  <2>2. n \in 1..Len(written) /\ m \in 1..Len(written)
    BY <1>4, <2>1
  <2>3. QED
    BY <1>1, <1>4, <1>14, <2>2 DEF NotUndone
<1>15. QED
  BY <1>10, <1>11, <1>13, <1>14 DEF SInv

\* Only resizes write requests.
LEMMA WrittenBy == StateTypes => \A m \in 1..Len(written) : written[m] \in Resizers
<1>1. StateTypes => written \in Seq(Resizers)
  BY DEF StateTypes
<1>2. QED
  BY <1>1

\* A connection that is new carries nothing.
LEMMA DialOrder ==
    ASSUME SInv, NEW h \in Resizers, Dials(h), AInv'
    PROVE  SInv'
<1> DEFINE b == handler.backlog
           bb == handler'.backlog
           N == Len(conns)
<1>1. /\ StateTypes /\ AInv /\ InOrder /\ WrittenOnce /\ Base /\ StateTypes'
  BY DEF SInv, AInv, Base
<1>2. /\ Goto(h, "write") /\ pc[h] = "lock" /\ UNCHANGED <<size, requests>>
      /\ handler'.serving = handler.serving /\ bb = Append(b, N + 1)
      /\ Len(conns') = N + 1 /\ \A c \in ConnIds : conns'[c] = conns[c]
      /\ conns'[N + 1].req = <<>> /\ (OneClient' => OneClient)
  BY DEF Dials, Leaves, history, OneClient
<1>3. /\ b \in Seq(1..N \union {Runc}) /\ N \in Nat /\ handler.serving \subseteq 1..N
      /\ \A n \in 1..Len(b) : b[n] \in 1..N \union {Runc}
  <2>1. handler \in Handlers(N) /\ N \in Nat
    BY <1>1, Types
  <2>2. b \in Seq(1..N \union {Runc}) /\ handler.serving \subseteq 1..N
    BY <2>1 DEF Handlers
  <2>3. QED
    BY <2>1, <2>2
<1>4. /\ Len(bb) = Len(b) + 1 /\ Len(b) \in Nat /\ bb[Len(b) + 1] = N + 1
      /\ \A n \in 1..Len(b) : bb[n] = b[n]
      /\ \A n \in 1..Len(bb) : n \in 1..Len(b) \/ n = Len(b) + 1
  BY <1>2, <1>3
<1>5. InOrder'
  <2>1. \A m, n \in 1..Len(bb) : m < n /\ bb[n] # Runc => bb[m] < bb[n]
    <3> SUFFICES ASSUME NEW m \in 1..Len(bb), NEW n \in 1..Len(bb), m < n, bb[n] # Runc
                 PROVE  bb[m] < bb[n]
      OBVIOUS
    <3>1. m \in 1..Len(b) /\ bb[m] = b[m]
      BY <1>4
    <3>2. CASE n \in 1..Len(b)
      BY <1>1, <1>4, <3>1, <3>2 DEF InOrder
    <3>3. CASE n = Len(b) + 1
      <4>1. b[m] \in 1..N \union {0}
        BY <1>3, <3>1 DEF Runc
      <4>2. QED
        BY <1>3, <1>4, <3>1, <3>3, <4>1
    <3>4. QED
      BY <1>4, <3>2, <3>3
  <2>2. \A c \in handler.serving, n \in 1..Len(bb) : bb[n] # Runc => c < bb[n]
    <3> SUFFICES ASSUME NEW c \in handler.serving, NEW n \in 1..Len(bb), bb[n] # Runc
                 PROVE  c < bb[n]
      OBVIOUS
    <3>1. CASE n \in 1..Len(b)
      BY <1>1, <1>4, <3>1 DEF InOrder
    <3>2. CASE n = Len(b) + 1
      BY <1>3, <1>4, <3>2
    <3>3. QED
      BY <1>4, <3>1, <3>2
  <2>3. QED
    BY <1>1, <1>2, <2>1, <2>2 DEF InOrder
<1>6. ASSUME NEW c \in ConnIds', conns'[c].req # <<>>
      PROVE  c \in ConnIds /\ conns'[c].req = conns[c].req /\ (PeerUp(c)' => PeerUp(c))
  <2>1. c \in ConnIds /\ c # N + 1
    BY <1>2, <1>3, <1>6 DEF ConnIds
  <2>2. conns'[c].req = conns[c].req
    BY <1>2, <2>1
  <2>3. PeerUp(c)' => PeerUp(c)
    <3>1. bb \in Seq(ConnIds' \union {Runc})
      BY <1>1 DEF StateTypes
    <3>2. Range(bb) = {bb[n] : n \in 1..Len(bb)}
      BY <3>1 DEF Range
    <3>3. PeerUp(c)' => c \in handler.serving \/ \E n \in 1..Len(bb) : bb[n] = c
      BY <1>2, <3>2 DEF PeerUp
    <3>4. QED
      BY <1>1, <1>4, <2>1, <3>3, PeerUpAt
  <2>4. QED
    BY <2>1, <2>2, <2>3
<1>7. \A m \in 1..Len(written) : pc'[written[m]] \in {"read", "ok", "err"}
  <2>0. \A m \in 1..Len(written) : written[m] \in Resizers
    BY <1>1, WrittenBy
  <2>1. \A m \in 1..Len(written) : written[m] \in Resizers /\ written[m] # h
    BY <1>1, <1>2, <2>0 DEF WrittenOnce
  <2>2. \A g \in Resizers : g # h => pc'[g] = pc[g]
    BY <1>1, <1>2, Moved DEF Calls
  <2>3. QED
    BY <1>1, <2>1, <2>2 DEF WrittenOnce
<1>8. QED
  BY <1>2, <1>5, <1>6, <1>7, StillRequests

\* A call's step that carries no request and dials no connection.
LEMMA PlainOrder ==
    ASSUME SInv, AInv', Advances, NEW h \in Calls, NEW l, Goto(h, l),
           UNCHANGED <<size, requests>>, OneClient' => OneClient, Len(conns') = Len(conns),
           \A c \in ConnIds : conns'[c].req = conns[c].req,
           h \in Resizers => \/ l \in {"read", "ok", "err"}
                             \/ pc[h] \notin {"read", "ok", "err"}
    PROVE  SInv'
<1>1. /\ StateTypes /\ AInv /\ InOrder /\ WrittenOnce /\ Base
  BY DEF SInv, AInv, Base
<1>2. InOrder' /\ \A c \in ConnIds : PeerUp(c)' => PeerUp(c)
  BY <1>1, AdvanceOrder
<1>3. ConnIds' = ConnIds
  BY DEF ConnIds
<1>4. \A m \in 1..Len(written) : pc'[written[m]] \in {"read", "ok", "err"}
  <2>0. \A m \in 1..Len(written) : written[m] \in Resizers
    BY <1>1, WrittenBy
  <2>1. \A m \in 1..Len(written) :
            written[m] \in Resizers /\ pc[written[m]] \in {"read", "ok", "err"}
    BY <1>1, <2>0 DEF WrittenOnce
  <2>2. pc'[h] = l /\ \A g \in Resizers : g # h => pc'[g] = pc[g]
    BY <1>1, Moved DEF Calls
  <2>3. QED
    BY <2>1, <2>2
<1>5. QED
  BY <1>2, <1>3, <1>4, StillRequests

\* Every step keeps the order of requests.
LEMMA StepSInv == SInv /\ [Next]_vars => SInv'
<1> SUFFICES ASSUME SInv, [Next]_vars PROVE SInv'
  OBVIOUS
<1>1. AInv /\ AInv' /\ Base /\ WrittenOnce /\ StateTypes
  BY StepAInv DEF SInv, AInv, Base
<1>2. ASSUME handler' = handler PROVE Advances
  BY <1>2 DEF Advances
<1>3. CASE Next
  <2>1. CASE Quiet
    <3>1. UNCHANGED <<client, size, pc, requests, spared>>
      BY <2>1 DEF history, Quiet, HandlerStarts, HandlerExits, HandlerHandshake, Accept, ServeEnd
    <3>2. Advances
      <4>1. handler \in Handlers(Len(conns)) /\ Len(conns) \in Nat
        BY <1>1, Types
      <4>2. CASE Ends("dead")
        BY <4>1, <4>2, EndsType DEF Advances
      <4>3. CASE handler' = [handler EXCEPT !.st = "listening"]
        BY <4>1, <4>3 DEF Advances, Handlers
      <4>4. CASE /\ handler' = [handler EXCEPT !.st = "ready", !.backlog = Tail(@)]
                 /\ handler.backlog # <<>>
        BY <4>1, <4>4 DEF Advances, Handlers
      <4>5. CASE Accept
        <5>1. /\ handler.st = "ready" /\ handler.backlog # <<>>
              /\ handler' = [handler EXCEPT !.serving = {Head(handler.backlog)},
                                            !.backlog = Tail(@)]
          BY <4>5 DEF Accept
        <5>2. Head(handler.backlog) # Runc
          BY <1>1, <5>1, TailBacklog DEF Base, RuncOnce
        <5>3. handler'.serving = {Head(handler.backlog)}
              /\ handler'.backlog = Tail(handler.backlog)
          BY <4>1, <5>1 DEF Handlers
        <5>4. QED
          BY <5>1, <5>2, <5>3 DEF Advances
      <4>6. CASE ServeEnd
        BY <4>1, <4>6 DEF ServeEnd, Advances, Handlers
      <4>7. QED
        BY <2>1, <4>2, <4>3, <4>4, <4>5, <4>6
           DEF Quiet, HandlerStarts, HandlerExits, HandlerHandshake
    <3>3. InOrder' /\ \A c \in ConnIds : PeerUp(c)' => PeerUp(c)
      BY <1>1, <3>2, AdvanceOrder DEF SInv
    <3>4. UNCHANGED <<conns, pc>> /\ ConnIds' = ConnIds /\ (OneClient' => OneClient)
      BY <3>1 DEF client, ConnIds, OneClient
    <3>5. QED
      BY <1>1, <3>1, <3>3, <3>4, StillRequests DEF WrittenOnce
  <2>2. CASE Serve
    BY <1>1, <2>2, ServeOrder
  <2>3. CASE Detaches
    <3>1. "delete" \in Calls /\ "delete" \notin Resizers
      BY ResizersFresh DEF Calls
    <3>2. QED
      BY <1>1, <1>2, <2>3, <3>1, PlainOrder DEF Detaches, OneClient
  <2>4. ASSUME NEW h \in Calls, NEW l, Walks(h, l) PROVE SInv'
    <3>1. Goto(h, l) /\ Advances /\ UNCHANGED <<size, requests, conns, clients>>
      BY <2>4 DEF Walks, NoneDialled, Advances, client
    <3>2. h \in Resizers => l = "err" \/ pc[h] \notin {"read", "ok", "err"}
      BY <2>4, ResizersFresh DEF Walks
    <3>3. OneClient' => OneClient
      <4>1. CASE h = "delete" /\ pc[h] = "new"
        BY <1>1, <4>1 DEF AInv, Ending, OneClient
      <4>2. CASE h # "delete" \/ pc[h] # "new"
        BY <2>4, <3>1, <4>2 DEF Walks, OneClient
      <4>3. QED
        BY <4>1, <4>2
    <3>4. QED
      BY <1>1, <3>1, <3>2, <3>3, PlainOrder
  <2>5. ASSUME NEW h \in Calls, NEW l, Resets(h, l) PROVE SInv'
    <3>1. Goto(h, l) /\ Advances /\ UNCHANGED <<size, requests>> /\ (OneClient' => OneClient)
          /\ (h \in Resizers => l = "err")
      BY <1>2, <2>5, ResizersFresh DEF Resets, Leaves, history, OneClient
    <3>2. Len(conns') = Len(conns) /\ \A c \in ConnIds : conns'[c].req = conns[c].req
      BY <2>5 DEF Resets, Carries
    <3>3. QED
      BY <1>1, <3>1, <3>2, PlainOrder
  <2>6. ASSUME NEW h \in Resizers, Fetches(h) \/ Takes(h) PROVE SInv'
    <3>1. h \in Calls
      BY DEF Calls
    <3>2. \E l : Goto(h, l) /\ pc[h] \notin {"read", "ok", "err"}
      BY <2>6 DEF Fetches, Takes
    <3>3. Advances /\ UNCHANGED <<size, requests, conns, spared>>
      BY <1>2, <2>6 DEF Fetches, Takes, history
    <3>4. OneClient' => OneClient
      <4>1. Len(clients) <= Len(clients') /\ Len(clients) \in Nat /\ Len(clients') \in Nat
        BY <1>1, <2>6, Types DEF Fetches, Takes, Leaves
      <4>2. QED
        BY <3>3, <4>1 DEF OneClient
    <3>5. QED
      BY <1>1, <3>1, <3>2, <3>3, <3>4, PlainOrder
  <2>7. ASSUME NEW h \in Resizers, NEW ok \in BOOLEAN, Replies(h, ok) PROVE SInv'
    <3>1. h \in Calls
      BY DEF Calls
    <3>2. \E l : Goto(h, l) /\ l \in {"ok", "err"}
      BY <2>7 DEF Replies
    <3>3. Advances /\ UNCHANGED <<size, requests>> /\ (OneClient' => OneClient)
      BY <1>2, <2>7 DEF Replies, Leaves, history, OneClient
    <3>4. Len(conns') = Len(conns) /\ \A c \in ConnIds : conns'[c].req = conns[c].req
      BY <2>7 DEF Replies, Carries
    <3>5. QED
      BY <1>1, <3>1, <3>2, <3>3, <3>4, PlainOrder
  <2>8. ASSUME NEW h \in Resizers, Uses(h) PROVE SInv'
    BY <1>1, <2>6, <2>7, <2>8, WriteOrder, DialOrder DEF Uses
  <2>9. QED
    BY <1>1, <1>3, <2>1, <2>2, <2>3, <2>4, <2>5, <2>8, Kinds
<1>4. CASE UNCHANGED vars
  <2>1. /\ UNCHANGED <<handler, conns, size, pc, requests>> /\ ConnIds' = ConnIds
        /\ (OneClient' => OneClient)
    BY <1>4 DEF vars, client, history, ConnIds, OneClient
  <2>2. InOrder' /\ \A c \in ConnIds : PeerUp(c)' => PeerUp(c)
    BY <1>1, <1>2, <2>1, AdvanceOrder DEF SInv
  <2>3. QED
    BY <1>1, <2>1, <2>2, StillRequests DEF WrittenOnce
<1>5. QED
  BY <1>3, <1>4

\* Once a Resize has succeeded no request written before it takes effect any more,
\* although abandoned ones sit in closed connections (handle_tty_ops, pty.c), while
\* one client is in use.
THEOREM StaleAlwaysLoses == Safe => []StaleNeverWins
<1>1. Init => SInv
  <2> SUFFICES ASSUME Init PROVE SInv
    OBVIOUS
  <2>0. PICK framed \in Framings :
           handler = [st |-> "none", path |-> NoCall, backlog |-> <<>>,
                      serving |-> {}, framed |-> framed]
    BY DEF Init, Framings
  <2>1. /\ AInv /\ conns = <<>> /\ applied = {} /\ written = <<>>
        /\ handler.backlog = <<>> /\ handler.serving = {}
    <3>1. conns = <<>> /\ applied = {} /\ written = <<>>
      BY DEF Init
    <3>2. handler.backlog = <<>> /\ handler.serving = {}
      BY <2>0
    <3>3. QED
      BY <3>1, <3>2, InitAInv
  <2>2. WrittenOnce /\ InOrder /\ Pending /\ NotUndone
    BY <2>1 DEF WrittenOnce, InOrder, Pending, NotUndone, ConnIds
  <2>3. QED
    BY <2>1, <2>2 DEF SInv
<1>2. SInv => StaleNeverWins
  <2> SUFFICES ASSUME SInv, OneClient, NEW m \in 1..Len(written),
                      NEW n \in 1..Len(written), m < n, pc[written[n]] = "ok"
               PROVE  size # written[m]
    BY DEF StaleNeverWins
  <2>1. written[n] \in Resizers
    BY DEF SInv, AInv, Base, StateTypes
  <2>2. written[n] \in applied
    BY <2>1 DEF SInv, AInv, AckIsOwn
  <2>3. QED
    BY <2>2 DEF SInv, NotUndone
<1>3. QED
  BY <1>1, <1>2, StepSInv, PTL DEF Safe
=============================================================================
