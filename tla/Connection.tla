------------------------------ MODULE Connection ------------------------------
(***************************************************************************)
(* The memcache port: a listener that accepts clients                      *)
(* (RequestResponseTcpServer.cs), the loop of a connection that cuts its   *)
(* bytes into requests and answers them (RequestDispatcher.cs), and what   *)
(* the handlers of the commands do to the cache and reply.                 *)
(*                                                                         *)
(* The listener awaits the task in which a connection's loop starts, and   *)
(* the loop reads lines synchronously: no other client is accepted until   *)
(* the loop awaits a data block that has not arrived, or ends.             *)
(*                                                                         *)
(* A client's bytes are a stream of tokens: the line of a request, the     *)
(* pieces of its data block as the network delivers them, and the line     *)
(* end after the block.  An entry of the cache is the sequence of the      *)
(* blocks it was put together from.                                        *)
(***************************************************************************)
EXTENDS Integers, FiniteSets, SequencesExt

CONSTANTS
    Clients, Keys, Nil,
    Requests,        \* what clients send
    Capacity,        \* of the cache, in pieces
    MaxEvents        \* bound: requests, clients that leave, and the stop, together

Storage == {"set", "add", "replace", "append", "prepend", "cas"}
Gets == {"get", "gets"}
Commands == Storage \cup Gets \cup
    {"delete", "touch", "flush_all", "quit", "exception", "stats", "version", "unknown"}

(* A request: its form says whether its line can be read; size counts the   *)
(* pieces of its block; fails says that a parameter is one the handler      *)
(* throws at (a key of more than 250 characters); later is flush_all's      *)
(* delay.                                                                   *)
Request == [command : Commands, key : Keys, size : Nat, form : {"good", "malformed", "long", "blank"},
            noreply : BOOLEAN, fails : BOOLEAN, later : BOOLEAN]

ASSUME ConnectionAssumption ==
    /\ Nil \notin Clients
    /\ Requests \subseteq Request
    /\ {Capacity, MaxEvents} \subseteq Nat

Token == [kind : {"line", "rest", "piece", "eol"}, n : Nat, i : Nat]
Block == [client : Clients, n : Nat, data : Seq(Nat)]

VARIABLES
    sent,        \* sent[c]: the requests client c has begun to send
    pending,     \* pending[c]: the tokens of the last of them that are not sent
    stream,      \* stream[c]: the tokens that have arrived and are not read
    gone,        \* has the client ended its side of the connection
    backlog,     \* the clients that have connected and are not accepted
    conn,        \* conn[c]: where the connection's loop is, in which request
    busy,        \* the client in whose loop the listener is, or Nil
    stopped,     \* the listener's cancellation token
    cache,       \* cache[k]: the blocks of the entry, none for no entry
    due,         \* scheduled flushes
    said,        \* said[c]: the requests that replies to c answer, 0 for none
    events       \* counted for the bound

clientVars == <<sent, pending, gone>>
serverVars == <<backlog, stopped>>
cacheVars == <<cache, due>>
vars == <<clientVars, stream, serverVars, conn, busy, cacheVars, said, events>>

Out == [at |-> "out", n |-> 0, data |-> <<>>]
Refused == [at |-> "refused", n |-> 0, data |-> <<>>]
Closed == [at |-> "closed", n |-> 0, data |-> <<>>]
Waiting == [at |-> "line", n |-> 0, data |-> <<>>]

Init ==
    /\ sent = [c \in Clients |-> <<>>] /\ pending = [c \in Clients |-> <<>>]
    /\ stream = [c \in Clients |-> <<>>] /\ gone = [c \in Clients |-> "no"]
    /\ backlog = <<>> /\ conn = [c \in Clients |-> Out]
    /\ busy = Nil /\ stopped = FALSE
    /\ cache = [k \in Keys |-> <<>>] /\ due = 0
    /\ said = [c \in Clients |-> <<>>] /\ events = 0

Event == events < MaxEvents /\ events' = events + 1

-----------------------------------------------------------------------------
(* Clients *)

Connect(c) ==
    /\ conn[c].at = "out" /\ ~stopped
    /\ conn' = [conn EXCEPT ![c].at = "backlog"]
    /\ backlog' = Append(backlog, c)
    /\ UNCHANGED <<clientVars, stream, busy, stopped, cacheVars, said, events>>

(* What is sent after the connection's end has no effect.                   *)
Connected(c) == conn[c].at \in {"backlog", "line", "data"} /\ gone[c] = "no"

Tokens(r, n) ==
    IF r.command \in Storage
    THEN [i \in 1..(r.size + 1) |->
            [kind |-> IF i > r.size THEN "eol" ELSE "piece", n |-> n, i |-> i]]
    ELSE <<>>

(* Begin the next request, or send more of the one begun.                   *)
SendLine(c) ==
    /\ Connected(c) /\ pending[c] = <<>> /\ Event
    /\ \E r \in Requests :
        LET n == Len(sent[c]) + 1 IN
        /\ sent' = [sent EXCEPT ![c] = Append(@, r)]
        /\ stream' = [stream EXCEPT ![c] = Append(@, [kind |-> "line", n |-> n, i |-> 0])]
        /\ pending' = [pending EXCEPT ![c] = Tokens(r, n)]
    /\ UNCHANGED <<gone, serverVars, conn, busy, cacheVars, said>>

SendMore(c) ==
    /\ Connected(c) /\ pending[c] # <<>>
    /\ stream' = [stream EXCEPT ![c] = Append(@, Head(pending[c]))]
    /\ pending' = [pending EXCEPT ![c] = Tail(@)]
    /\ UNCHANGED <<sent, gone, serverVars, conn, busy, cacheVars, said, events>>

(* A client shuts its connection down, or resets it.                        *)
Leave(c) ==
    /\ Connected(c) /\ Event
    /\ \E how \in {"fin", "reset"} : gone' = [gone EXCEPT ![c] = how]
    /\ UNCHANGED <<sent, pending, stream, serverVars, conn, busy, cacheVars, said>>

-----------------------------------------------------------------------------
(* The handlers *)

(* Does a storage command find what it needs: a cas, the unique it was      *)
(* given.                                                                   *)
Stores(r) ==
    CASE r.command = "set" -> {TRUE}
      [] r.command = "add" -> {cache[r.key] = <<>>}
      [] r.command \in {"replace", "append", "prepend"} -> {cache[r.key] # <<>>}
      [] OTHER -> {TRUE, cache[r.key] = <<>>}

(* What the handler of request n of client c leaves in the cache, from the  *)
(* block it was given.                                                      *)
Entry(r, b) ==
    CASE r.command = "append" -> Append(cache[r.key], b)
      [] r.command = "prepend" -> <<b>> \o cache[r.key]
      [] OTHER -> <<b>>

OverCapacity(r, data) == r.command # "cas" /\ Len(data) > Capacity

Effect(c, r, n, data) ==
    IF r.fails THEN UNCHANGED cacheVars
    ELSE CASE r.command \in Storage /\ ~OverCapacity(r, data) ->
                /\ \E stored \in Stores(r) : cache' = IF stored
                        THEN [cache EXCEPT ![r.key] = Entry(r, [client |-> c, n |-> n, data |-> data])]
                        ELSE cache
                /\ UNCHANGED due
           [] r.command = "delete" -> cache' = [cache EXCEPT ![r.key] = <<>>] /\ UNCHANGED due
           [] r.command = "flush_all" /\ ~r.later -> cache' = [k \in Keys |-> <<>>] /\ UNCHANGED due
           [] r.command = "flush_all" /\ r.later -> due' = due + 1 /\ UNCHANGED cache
           [] OTHER -> UNCHANGED cacheVars

(* A reply goes to a stream of its own when the client wants none; what is  *)
(* said of an exception goes to the connection all the same.                *)
Replies(r) ==
    \/ r.command = "exception" \/ r.fails
    \/ r.command # "quit" /\ (r.noreply => r.command \in Gets)

Says(c, r, n) == said' = IF Replies(r) THEN [said EXCEPT ![c] = Append(@, n)] ELSE said

(* A scheduled flush comes due. *)
FlushDue ==
    /\ due > 0 /\ due' = due - 1
    /\ cache' = [k \in Keys |-> <<>>]
    /\ UNCHANGED <<clientVars, stream, serverVars, conn, busy, said, events>>

-----------------------------------------------------------------------------
(* The listener *)

Accept(c) ==
    /\ ~stopped /\ busy = Nil /\ backlog # <<>> /\ c = Head(backlog)
    /\ backlog' = Tail(backlog) /\ busy' = c
    /\ conn' = [conn EXCEPT ![c] = Waiting]
    /\ UNCHANGED <<clientVars, stream, stopped, cacheVars, said, events>>

(* Stop ends the listener; the connections it has accepted go on.           *)
Stop ==
    /\ ~stopped /\ stopped' = TRUE /\ Event
    /\ backlog' = <<>>
    /\ conn' = [c \in Clients |-> IF conn[c].at = "backlog" THEN Refused ELSE conn[c]]
    /\ stream' = [c \in Clients |-> IF conn[c].at = "backlog" THEN <<>> ELSE stream[c]]
    /\ UNCHANGED <<clientVars, busy, cacheVars, said>>

(* Mutant: the listener does not go on when the loop ends.                  *)
Freed_Never(c) == busy

Freed(c) == IF busy = c THEN Nil ELSE busy

(* The loop of connection c ends: of a client that left, or that the        *)
(* dispatcher disconnects.  What is not read of its stream is dropped.      *)
Close(c) ==
    /\ conn' = [conn EXCEPT ![c] = Closed]
    /\ busy' = Freed(c)
    /\ stream' = [stream EXCEPT ![c] = <<>>]

-----------------------------------------------------------------------------
(* The loop of a connection *)

AtLine(c) == conn[c].at = "line"

Consume(c, rest) == stream' = [stream EXCEPT ![c] = rest]

NextLine(c) ==
    /\ AtLine(c) /\ stream[c] # <<>> /\ Head(stream[c]).kind = "line"

Line(c) == sent[c][Head(stream[c]).n]

(* Go on with the next line of the connection.                              *)
Continue(c) == conn' = [conn EXCEPT ![c] = Waiting] /\ UNCHANGED busy

(* Nothing in 256 bytes ends the line: an error is sent, and what is left   *)
(* of the line is read as the next one.                                     *)
ReadTooLong(c) ==
    /\ NextLine(c) /\ Line(c).form = "long"
    /\ LET n == Head(stream[c]).n IN
        /\ Consume(c, <<[kind |-> "rest", n |-> n, i |-> 0]>> \o Tail(stream[c]))
        /\ said' = [said EXCEPT ![c] = Append(@, n)]
    /\ Continue(c)
    /\ UNCHANGED <<clientVars, serverVars, cacheVars, events>>

(* A blank line is taken for the end of the connection.                     *)
ReadBlank(c) ==
    /\ \/ NextLine(c) /\ Line(c).form = "blank"
       \/ AtLine(c) /\ stream[c] # <<>> /\ Head(stream[c]).kind = "eol"
    /\ Close(c)
    /\ UNCHANGED <<clientVars, serverVars, cacheVars, said, events>>

(* The length of the block cannot be read: an error is sent, and the block  *)
(* is still to be read.                                                     *)
ReadMalformed(c) ==
    /\ NextLine(c) /\ Line(c).form = "malformed" /\ Line(c).command \in Storage
    /\ Consume(c, Tail(stream[c]))
    /\ said' = [said EXCEPT ![c] = Append(@, Head(stream[c]).n)]
    /\ Continue(c)
    /\ UNCHANGED <<clientVars, serverVars, cacheVars, events>>

(* What is left of a line, or a data block, is read as a line.              *)
StrayLine(c) ==
    IF Head(stream[c]).kind = "rest" THEN 1
    ELSE IF \E i \in DOMAIN stream[c] : stream[c][i].kind = "eol"
         THEN CHOOSE i \in DOMAIN stream[c] : /\ stream[c][i].kind = "eol"
                                              /\ \A j \in 1..(i - 1) : stream[c][j].kind # "eol"
         ELSE 0

ReadStray(c) ==
    /\ AtLine(c) /\ stream[c] # <<>> /\ Head(stream[c]).kind \in {"rest", "piece"}
    /\ StrayLine(c) # 0
    /\ Consume(c, SubSeq(stream[c], StrayLine(c) + 1, Len(stream[c])))
    /\ said' = [said EXCEPT ![c] = Append(@, 0)]
    /\ Continue(c)
    /\ UNCHANGED <<clientVars, serverVars, cacheVars, events>>

(* The line of a storage command: its block is read before it is handled.   *)
ReadStorage(c) ==
    /\ NextLine(c) /\ Line(c).form = "good" /\ Line(c).command \in Storage
    /\ Consume(c, Tail(stream[c]))
    /\ conn' = [conn EXCEPT ![c] = [at |-> "data", n |-> Head(stream[c]).n, data |-> <<>>]]
    /\ UNCHANGED <<clientVars, serverVars, busy, cacheVars, said, events>>

(* Another command is handled at once.                                      *)
ReadCommand(c) ==
    /\ NextLine(c) /\ Line(c).form \in {"good", "malformed"} /\ Line(c).command \notin Storage
    /\ LET n == Head(stream[c]).n IN Effect(c, Line(c), n, <<>>) /\ Says(c, Line(c), n)
    /\ IF Line(c).command = "quit" THEN Close(c)
                                   ELSE Continue(c) /\ Consume(c, Tail(stream[c]))
    /\ UNCHANGED <<clientVars, serverVars, events>>

(* Mutant: the block is what the first read returns.                        *)
Complete_AtFirstRead(c) == Len(conn[c].data) >= IF sent[c][conn[c].n].size = 0 THEN 0 ELSE 1

(* The block is complete when it has the length the line stated.            *)
Complete(c) == Len(conn[c].data) = sent[c][conn[c].n].size

(* Mutant: after an await the block is not read on.                         *)
ReadPiece_AtOnce(c) ==
    /\ conn[c].at = "data" /\ ~Complete(c) /\ stream[c] # <<>> /\ busy = c
    /\ conn' = [conn EXCEPT ![c].data = Append(@, Head(stream[c]).i)]
    /\ Consume(c, Tail(stream[c]))
    /\ UNCHANGED <<clientVars, serverVars, busy, cacheVars, said, events>>

(* One ReadAsync of the block: the bytes that have arrived, up to its end.  *)
ReadPiece(c) ==
    /\ conn[c].at = "data" /\ ~Complete(c) /\ stream[c] # <<>>
    /\ conn' = [conn EXCEPT ![c].data = Append(@, Head(stream[c]).i)]
    /\ Consume(c, Tail(stream[c]))
    /\ UNCHANGED <<clientVars, serverVars, busy, cacheVars, said, events>>

(* It has to be awaited: the listener goes on, and the loop continues in    *)
(* another thread.                                                          *)
Yield(c) ==
    /\ conn[c].at = "data" /\ ~Complete(c) /\ busy = c
    /\ busy' = Nil
    /\ UNCHANGED <<clientVars, stream, serverVars, conn, cacheVars, said, events>>

(* Mutant: the line end after the block is not read.                        *)
HandleBlock_LeavesLineEnd(c) ==
    /\ conn[c].at = "data" /\ Complete(c)
    /\ LET n == conn[c].n r == sent[c][n] IN Effect(c, r, n, conn[c].data) /\ Says(c, r, n)
    /\ Continue(c)
    /\ UNCHANGED <<clientVars, stream, serverVars, events>>

(* The two bytes after the block are read, whatever they are, and the       *)
(* request is handled.                                                      *)
HandleBlock(c) ==
    /\ conn[c].at = "data" /\ Complete(c)
    /\ stream[c] # <<>> \/ gone[c] = "fin"
    /\ Consume(c, IF stream[c] = <<>> THEN <<>> ELSE Tail(stream[c]))
    /\ LET n == conn[c].n r == sent[c][n] IN Effect(c, r, n, conn[c].data) /\ Says(c, r, n)
    /\ Continue(c)
    /\ UNCHANGED <<clientVars, serverVars, events>>

(* The client shut its connection down within the block: the connection is  *)
(* closed, the request is handled with an empty block, and the reply ends   *)
(* the loop, as the stream is closed.                                       *)
BlockEnds(c) ==
    /\ conn[c].at = "data" /\ ~Complete(c) /\ stream[c] = <<>> /\ gone[c] = "fin"
    /\ LET n == conn[c].n IN Effect(c, sent[c][n], n, <<>>)
    /\ Close(c)
    /\ UNCHANGED <<clientVars, serverVars, said, events>>

(* Mutant: the end of the stream is not told from a byte.                   *)
LineEnds_NotSeen(c) ==
    /\ AtLine(c) /\ gone[c] = "fin" /\ stream[c] = <<>>
    /\ UNCHANGED vars

(* It shut it down after a request, or within a line: the loop ends.        *)
LineEnds(c) ==
    /\ AtLine(c) /\ gone[c] = "fin"
    /\ stream[c] # <<>> => Head(stream[c]).kind = "piece" /\ StrayLine(c) = 0
    /\ Close(c)
    /\ UNCHANGED <<clientVars, serverVars, cacheVars, said, events>>

(* It reset the connection: reading fails, now or after what has arrived.   *)
ReadFails(c) ==
    /\ conn[c].at \in {"line", "data"} /\ gone[c] = "reset"
    /\ Close(c)
    /\ UNCHANGED <<clientVars, serverVars, cacheVars, said, events>>

Serve(c) ==
    \/ ReadTooLong(c) \/ ReadBlank(c) \/ ReadMalformed(c) \/ ReadStray(c)
    \/ ReadStorage(c) \/ ReadCommand(c)
    \/ ReadPiece(c) \/ Yield(c) \/ HandleBlock(c)
    \/ BlockEnds(c) \/ LineEnds(c) \/ ReadFails(c)

Next ==
    \/ \E c \in Clients :
        \/ Connect(c) \/ SendLine(c) \/ SendMore(c) \/ Leave(c)
        \/ Accept(c) \/ Serve(c)
    \/ FlushDue \/ Stop

(* The listener's task and a connection's loop run on the thread pool;      *)
(* nothing makes a client send or leave.                                    *)
Fairness == \A c \in Clients : WF_vars(Accept(c)) /\ WF_vars(Serve(c))

Spec == Init /\ [][Next]_vars /\ Fairness

-----------------------------------------------------------------------------
(* Properties *)

(* The variables have their types; the listener is in the loop of a         *)
(* connection that is open, and a loop that reads a block is in a storage   *)
(* request of its client, with no more of the block than the line stated.   *)
TypeOK ==
    /\ sent \in [Clients -> Seq(Requests)] /\ pending \in [Clients -> Seq(Token)]
    /\ stream \in [Clients -> Seq(Token)] /\ gone \in [Clients -> {"no", "fin", "reset"}]
    /\ backlog \in Seq(Clients)
    /\ conn \in [Clients -> [at : {"out", "backlog", "refused", "line", "data", "closed"},
                           n : Nat, data : Seq(Nat)]]
    /\ busy \in Clients \cup {Nil} /\ stopped \in BOOLEAN
    /\ cache \in [Keys -> Seq(Block)] /\ due \in Nat /\ events \in Nat /\ said \in [Clients -> Seq(Nat)]
    /\ \A c \in Clients :
        /\ busy = c => conn[c].at \in {"line", "data"}
        /\ conn[c].at = "data" =>
            /\ conn[c].n \in DOMAIN sent[c] /\ sent[c][conn[c].n].command \in Storage
            /\ Len(conn[c].data) <= sent[c][conn[c].n].size

WellFormed(c) ==
    \A n \in DOMAIN sent[c] :
        /\ sent[c][n].form = "good"
        /\ sent[c][n].fails \/ sent[c][n].command = "exception" => ~sent[c][n].noreply

(* The requests of a client that are sent up to their block's end, and to   *)
(* their own; and the replies that requests want.                           *)
BlockSent(c) == {n \in DOMAIN sent[c] :
                n = Len(sent[c]) => \A i \in DOMAIN pending[c] : pending[c][i].kind = "eol"}
Whole(c) == {n \in DOMAIN sent[c] : n = Len(sent[c]) => pending[c] = <<>>}
Wanted(c, ns) == {n \in ns : Replies(sent[c][n])}

(* The replies to a client whose requests are well formed answer them one   *)
(* by one, in their order, none left out and none twice, and its connection *)
(* ends only when it left or asked for it: no boundary of a request is      *)
(* missed.                                                                  *)
InStep ==
    \A c \in Clients : WellFormed(c) =>
        /\ \A i, j \in DOMAIN said[c] : i < j => said[c][i] < said[c][j]
        /\ ToSet(said[c]) \subseteq Wanted(c, BlockSent(c))
        /\ \A n \in ToSet(said[c]), m \in Wanted(c, BlockSent(c)) : m < n => m \in ToSet(said[c])
        /\ conn[c].at = "closed" =>
            \/ gone[c] # "no"
            \/ \E n \in DOMAIN sent[c] : sent[c][n].command = "quit"

(* A block in the cache is the whole block of a request, or is empty and of *)
(* a request whose client left in the middle of it: never a part of one,    *)
(* or bytes of another request.                                             *)
WholeValues ==
    \A k \in Keys : \A b \in ToSet(cache[k]) :
        LET r == sent[b.client][b.n] IN
        \/ b.data = [i \in 1..r.size |-> i]
        \/ b.data = <<>> /\ gone[b.client] = "fin" /\ b.n \notin BlockSent(b.client)

(* The listener does not stay with a client that has left.                  *)
ListenerFreed == \A c \in Clients : (busy = c /\ gone[c] # "no") ~> (busy # c)

(* A client that is served, and whose requests are well formed and sent to  *)
(* their end, gets all its replies, unless it leaves.                       *)
Answered ==
    \A c \in Clients :
        (conn[c].at \in {"line", "data"} /\ pending[c] = <<>>)
            ~> \/ Wanted(c, Whole(c)) \subseteq ToSet(said[c]) \/ ~WellFormed(c)
               \/ gone[c] # "no" \/ conn[c].at = "closed"
=============================================================================
