--------------------------- MODULE ConnectionProofs ---------------------------
(***************************************************************************)
(* Proofs about the memcache port, for any clients, keys and requests: the *)
(* types, that a block in the cache is the whole block of one request, and *)
(* that the replies to a client keep in step with its requests.            *)
(*                                                                         *)
(* What a read returns depends on what was sent before it, so the          *)
(* invariant is about the tokens on their way: behind the line of a        *)
(* storage request come the pieces of its block, in their order, and then  *)
(* its line end, in the stream or, as far as they are not sent, in what is *)
(* pending.                                                                *)
(*                                                                         *)
(* Replies are in step because at every moment there is a number d such    *)
(* that the loop has handled the first d requests and answered those of    *)
(* them that want it, and reads the line, or the block, of the next one    *)
(* (Paced).                                                                *)
(***************************************************************************)
EXTENDS Connection, SequenceTheorems, TLAPS

(* Token i of the block of request n of a client that sent rs.              *)
TokenOf(rs, n, i) == [kind |-> IF i > rs[n].size THEN "eol" ELSE "piece", n |-> n, i |-> i]

(* Does more of a request follow its token x, and which token is it?        *)
Continues(rs, x) == x.kind = "piece" \/ (x.kind = "line" /\ rs[x.n].command \in Storage)

Follows(rs, x, y) == Continues(rs, x) => y = TokenOf(rs, x.n, x.i + 1)

Chained(rs, s) == \A i \in 1..(Len(s) - 1) : Follows(rs, s[i], s[i + 1])

Known(rs, s) == \A i \in 1..Len(s) :
    s[i].n \in 1..Len(rs) /\ (s[i].kind = "line" => s[i].i = 0)

(* The tokens of a client that sent rs: s has arrived, p is pending.        *)
Framing(rs, s, p) ==
    /\ Known(rs, s) /\ Chained(rs, s) /\ Chained(rs, p)
    /\ \A i \in 1..Len(p) : p[i].n = Len(rs) /\ p[i].kind # "line"
    /\ p # <<>> => Len(rs) > 0 /\ ~Continues(rs, p[Len(p)])
    /\ s # <<>> /\ Continues(rs, s[Len(s)]) => p # <<>> /\ Follows(rs, s[Len(s)], p[1])

(* A loop that reads a block has the first pieces of it, and the next token *)
(* is the next piece, or the line end.                                      *)
Reading(rs, s, p, cn) ==
    cn.at = "data" =>
        /\ cn.data = [i \in 1..Len(cn.data) |-> i]
        /\ (s # <<>>) => s[1] = TokenOf(rs, cn.n, Len(cn.data) + 1)
        /\ (s = <<>>) => p # <<>> /\ p[1] = TokenOf(rs, cn.n, Len(cn.data) + 1)

Types ==
    /\ sent \in [Clients -> Seq(Requests)] /\ pending \in [Clients -> Seq(Token)]
    /\ stream \in [Clients -> Seq(Token)] /\ gone \in [Clients -> {"no", "fin", "reset"}]
    /\ backlog \in Seq(Clients)
    /\ conn \in [Clients -> [at : {"out", "backlog", "refused", "line", "data", "closed"},
                           n : Nat, data : Seq(Nat)]]
    /\ busy \in Clients \cup {Nil} /\ stopped \in BOOLEAN
    /\ cache \in [Keys -> Seq(Block)] /\ due \in Nat /\ events \in Nat /\ said \in [Clients -> Seq(Nat)]

Busy(c) == busy = c => conn[c].at \in {"line", "data"}

InBlock(rs, cn) ==
    cn.at = "data" =>
        /\ cn.n \in DOMAIN rs /\ rs[cn.n].command \in Storage
        /\ Len(cn.data) <= rs[cn.n].size

ClientInv(rs, s, p, cn) == Framing(rs, s, p) /\ Reading(rs, s, p, cn) /\ InBlock(rs, cn)

(* A block is of a request that was sent, and whole or of a client that left *)
(* within it.                                                               *)
Left(rs, p, g, n) == g = "fin" /\ n = Len(rs) /\ \E i \in DOMAIN p : p[i].kind # "eol"

Sound(b, rs, p, g) ==
    /\ b.n \in 1..Len(rs)
    /\ \/ b.data = [i \in 1..rs[b.n].size |-> i]
       \/ b.data = <<>> /\ Left(rs, p, g, b.n)

BlocksSound ==
    \A k \in Keys : \A i \in 1..Len(cache[k]) :
        LET b == cache[k][i] IN Sound(b, sent[b.client], pending[b.client], gone[b.client])

ConnInv ==
    /\ Types
    /\ \A c \in Clients : Busy(c)
    /\ \A c \in Clients : ClientInv(sent[c], stream[c], pending[c], conn[c])
    /\ BlocksSound

LEMMA TypeOKFromInv == ConnInv => TypeOK
BY DEF ConnInv, Types, Busy, ClientInv, InBlock, TypeOK

LEMMA WholeFromInv == ConnInv => WholeValues
<1> SUFFICES ASSUME ConnInv, NEW k \in Keys, NEW b \in ToSet(cache[k])
             PROVE  LET r == sent[b.client][b.n] IN
                    \/ b.data = [i \in 1..r.size |-> i]
                    \/ b.data = <<>> /\ gone[b.client] = "fin" /\ b.n \notin BlockSent(b.client)
  BY DEF WholeValues
<1>1. PICK i \in DOMAIN cache[k] : b = cache[k][i]
  BY DEF ToSet
<1>2. i \in 1..Len(cache[k])
  BY <1>1 DEF ConnInv, Types
<1>3. Sound(b, sent[b.client], pending[b.client], gone[b.client])
  BY <1>1, <1>2 DEF ConnInv, BlocksSound
<1> QED
  BY <1>3 DEF Sound, Left, BlockSent

-----------------------------------------------------------------------------
(* Tokens *)

LEMMA FramingEmpty ==
    ASSUME NEW rs \in Seq(Requests), NEW s \in Seq(Token), NEW p \in Seq(Token), Framing(rs, s, p)
    PROVE  Framing(rs, <<>>, p)
BY DEF Framing, Known, Chained

(* What has been read is gone. *)
LEMMA FramingSuffix ==
    ASSUME NEW rs \in Seq(Requests), NEW s \in Seq(Token), NEW p \in Seq(Token), Framing(rs, s, p),
           NEW j \in 1..Len(s)
    PROVE  /\ SubSeq(s, j + 1, Len(s)) \in Seq(Token)
           /\ Framing(rs, SubSeq(s, j + 1, Len(s)), p)
<1> DEFINE u == SubSeq(s, j + 1, Len(s))
<1>1. u \in Seq(Token) /\ Len(u) = Len(s) - j /\ \A i \in 1..Len(u) : u[i] = s[i + j]
  OBVIOUS
<1> HIDE DEF u
<1>2. Known(rs, u)
  <2> SUFFICES ASSUME NEW i \in 1..Len(u)
               PROVE  u[i].n \in 1..Len(rs) /\ (u[i].kind = "line" => u[i].i = 0)
    BY DEF Known
  <2>1. u[i] = s[i + j] /\ i + j \in 1..Len(s)
    BY <1>1
  <2> QED
    BY <2>1 DEF Framing, Known
<1>3. Chained(rs, u)
  <2> SUFFICES ASSUME NEW i \in 1..(Len(u) - 1) PROVE Follows(rs, u[i], u[i + 1])
    BY DEF Chained
  <2>1. u[i] = s[i + j] /\ u[i + 1] = s[i + j + 1] /\ i + j \in 1..(Len(s) - 1)
    <3>1. i \in 1..Len(u) /\ i + 1 \in 1..Len(u) /\ i + j \in 1..(Len(s) - 1)
      BY <1>1
    <3>2. (i + 1) + j = i + j + 1
      BY <3>1
    <3> QED
      BY <3>1, <3>2, <1>1
  <2>2. \A m \in 1..(Len(s) - 1) : Follows(rs, s[m], s[m + 1])
    BY DEF Framing, Chained
  <2> QED
    BY <2>1, <2>2
<1>4. ASSUME u # <<>> PROVE s # <<>> /\ u[Len(u)] = s[Len(s)]
  <2>1. Len(u) \in 1..Len(u) /\ Len(u) + j = Len(s)
    BY <1>1, <1>4
  <2>2. u[Len(u)] = s[Len(u) + j]
    BY <2>1, <1>1
  <2> QED
    BY <2>1, <2>2
<1>5. Framing(rs, u, p)
  BY <1>2, <1>3, <1>4 DEF Framing
<1> QED
  BY <1>1, <1>5 DEF u

LEMMA FramingTail ==
    ASSUME NEW rs \in Seq(Requests), NEW s \in Seq(Token), NEW p \in Seq(Token), Framing(rs, s, p),
           s # <<>>
    PROVE  Tail(s) \in Seq(Token) /\ Framing(rs, Tail(s), p)
<1>1. Tail(s) = SubSeq(s, 1 + 1, Len(s)) /\ 1 \in 1..Len(s)
  OBVIOUS
<1> QED
  BY <1>1, FramingSuffix

(* The token after the first one, as a part of the same request.            *)
LEMMA NextToken ==
    ASSUME NEW rs \in Seq(Requests), NEW s \in Seq(Token), NEW p \in Seq(Token), Framing(rs, s, p),
           s # <<>>, Continues(rs, s[1])
    PROVE  /\ Tail(s) # <<>> => Tail(s)[1] = TokenOf(rs, s[1].n, s[1].i + 1)
           /\ Tail(s) = <<>> => p # <<>> /\ p[1] = TokenOf(rs, s[1].n, s[1].i + 1)
<1>1. ASSUME Tail(s) # <<>> PROVE Tail(s)[1] = TokenOf(rs, s[1].n, s[1].i + 1)
  <2>1. Len(s) > 1 /\ Tail(s)[1] = s[2] /\ 1 \in 1..(Len(s) - 1)
    BY <1>1
  <2>2. Follows(rs, s[1], s[1 + 1])
    BY <2>1 DEF Framing, Chained
  <2> QED
    BY <2>1, <2>2 DEF Follows
<1>2. ASSUME Tail(s) = <<>> PROVE p # <<>> /\ p[1] = TokenOf(rs, s[1].n, s[1].i + 1)
  <2>1. Len(Tail(s)) = Len(s) - 1
    OBVIOUS
  <2>2. Len(Tail(s)) = 0
    <3>1. Len(<<>>) = 0
      OBVIOUS
    <3> QED
      BY <1>2, <3>1, Zenon
  <2>3. Len(s) = 1
    <3>1. Len(s) \in Nat
      OBVIOUS
    <3> QED
      BY <2>1, <2>2, <3>1
  <2> QED
    BY <2>3 DEF Framing, Follows
<1> QED
  BY <1>1, <1>2

(* What is left of a line that is too long begins no block.                 *)
LEMMA FramingRest ==
    ASSUME NEW rs \in Seq(Requests), NEW s \in Seq(Token), NEW p \in Seq(Token), Framing(rs, s, p),
           s # <<>>
    PROVE  LET u == <<[kind |-> "rest", n |-> s[1].n, i |-> 0]>> \o Tail(s) IN
           u \in Seq(Token) /\ Framing(rs, u, p)
<1> DEFINE x == [kind |-> "rest", n |-> s[1].n, i |-> 0]
<1> DEFINE u == <<x>> \o Tail(s)
<1>1. x \in Token /\ x.kind = "rest" /\ x.n = s[1].n
  <2>1. s[1] \in Token
    OBVIOUS
  <2> QED
    BY <2>1 DEF Token
<1> HIDE DEF x
<1>2. u \in Seq(Token) /\ Len(u) = Len(s) /\ u[1] = x /\ \A i \in 2..Len(u) : u[i] = s[i]
  BY <1>1
<1> HIDE DEF u
<1>3. ~Continues(rs, x)
  BY <1>1 DEF Continues
<1>4. Known(rs, u)
  <2> SUFFICES ASSUME NEW i \in 1..Len(u)
               PROVE  u[i].n \in 1..Len(rs) /\ (u[i].kind = "line" => u[i].i = 0)
    BY DEF Known
  <2>1. CASE i = 1
    BY <2>1, <1>1, <1>2 DEF Framing, Known
  <2>2. CASE i \in 2..Len(u)
    BY <2>2, <1>2 DEF Framing, Known
  <2> QED
    BY <2>1, <2>2, <1>2
<1>5. Chained(rs, u)
  <2> SUFFICES ASSUME NEW i \in 1..(Len(u) - 1) PROVE Follows(rs, u[i], u[i + 1])
    BY DEF Chained
  <2>1. CASE i = 1
    BY <2>1, <1>2, <1>3 DEF Follows
  <2>2. CASE i \in 2..(Len(u) - 1)
    <3>1. u[i] = s[i] /\ u[i + 1] = s[i + 1] /\ i \in 1..(Len(s) - 1)
      BY <2>2, <1>2
    <3> QED
      BY <3>1 DEF Framing, Chained
  <2> QED
    BY <2>1, <2>2, <1>2
<1>6. Continues(rs, u[Len(u)]) => u[Len(u)] = s[Len(s)]
  BY <1>2, <1>3
<1>7. Framing(rs, u, p)
  BY <1>4, <1>5, <1>6, <1>2 DEF Framing
<1> QED
  BY <1>2, <1>7 DEF u, x

(* A client sends more. *)
LEMMA FramingMore ==
    ASSUME NEW rs \in Seq(Requests), NEW s \in Seq(Token), NEW p \in Seq(Token), Framing(rs, s, p),
           p # <<>>
    PROVE  /\ Append(s, Head(p)) \in Seq(Token) /\ Tail(p) \in Seq(Token)
           /\ Framing(rs, Append(s, Head(p)), Tail(p))
<1> DEFINE u == Append(s, Head(p))
<1> DEFINE q == Tail(p)
<1>1. /\ u \in Seq(Token) /\ Len(u) = Len(s) + 1 /\ u[Len(u)] = p[1]
      /\ \A i \in 1..Len(s) : u[i] = s[i]
  OBVIOUS
<1>2. q \in Seq(Token) /\ Len(q) = Len(p) - 1 /\ \A i \in 1..Len(q) : q[i] = p[i + 1]
  OBVIOUS
<1> HIDE DEF u, q
<1>3. Known(rs, u)
  <2> SUFFICES ASSUME NEW i \in 1..Len(u)
               PROVE  u[i].n \in 1..Len(rs) /\ (u[i].kind = "line" => u[i].i = 0)
    BY DEF Known
  <2>1. CASE i \in 1..Len(s)
    BY <2>1, <1>1 DEF Framing, Known
  <2>2. CASE i = Len(u)
    <3>1. 1 \in 1..Len(p) /\ Len(rs) \in Nat
      OBVIOUS
    <3> QED
      BY <3>1, <2>2, <1>1 DEF Framing
  <2> QED
    BY <2>1, <2>2, <1>1
<1>4. Chained(rs, u)
  <2> SUFFICES ASSUME NEW i \in 1..(Len(u) - 1) PROVE Follows(rs, u[i], u[i + 1])
    BY DEF Chained
  <2>1. CASE i \in 1..(Len(s) - 1)
    <3>1. i \in 1..Len(s) /\ i + 1 \in 1..Len(s)
      BY <2>1
    <3>2. u[i] = s[i] /\ u[i + 1] = s[i + 1]
      BY <3>1, <1>1
    <3> QED
      BY <3>2, <2>1 DEF Framing, Chained
  <2>2. CASE i = Len(s)
    <3>1. s # <<>> /\ u[i] = s[Len(s)] /\ u[i + 1] = p[1]
      BY <2>2, <1>1
    <3> QED
      BY <3>1 DEF Framing, Follows
  <2> QED
    BY <2>1, <2>2, <1>1
<1>5. Chained(rs, q)
  <2> SUFFICES ASSUME NEW i \in 1..(Len(q) - 1) PROVE Follows(rs, q[i], q[i + 1])
    BY DEF Chained
  <2>1. q[i] = p[i + 1] /\ q[i + 1] = p[i + 1 + 1] /\ i + 1 \in 1..(Len(p) - 1)
    BY <1>2
  <2> QED
    BY <2>1 DEF Framing, Chained
<1>6. \A i \in 1..Len(q) : q[i].n = Len(rs) /\ q[i].kind # "line"
  <2>1. \A i \in 1..Len(p) : p[i].n = Len(rs) /\ p[i].kind # "line"
    BY DEF Framing
  <2>2. \A i \in 1..Len(q) : q[i] = p[i + 1] /\ i + 1 \in 1..Len(p)
    BY <1>2
  <2> QED
    BY <2>1, <2>2
<1>7. q # <<>> => Len(rs) > 0 /\ ~Continues(rs, q[Len(q)])
  <2>1. q # <<>> => q[Len(q)] = p[Len(p)]
    BY <1>2
  <2> QED
    BY <2>1 DEF Framing
<1>8. Continues(rs, u[Len(u)]) => q # <<>> /\ Follows(rs, u[Len(u)], q[1])
  <2> SUFFICES ASSUME Continues(rs, p[1]) PROVE q # <<>> /\ Follows(rs, p[1], q[1])
    BY <1>1
  <2>1. Len(p) # 1
    BY DEF Framing
  <2>2. q # <<>> /\ q[1] = p[2] /\ 1 \in 1..(Len(p) - 1)
    BY <2>1, <1>2
  <2>3. Follows(rs, p[1], p[1 + 1])
    BY <2>2 DEF Framing, Chained
  <2> QED
    BY <2>2, <2>3
<1>9. Framing(rs, u, q)
  BY <1>3, <1>4, <1>5, <1>6, <1>7, <1>8 DEF Framing
<1> QED
  BY <1>1, <1>2, <1>9 DEF u, q

(* One more request changes nothing about the tokens before it.             *)
LEMMA ChainedKept ==
    ASSUME NEW rs \in Seq(Requests), NEW r \in Requests, NEW s \in Seq(Token),
           Known(rs, s), Chained(rs, s)
    PROVE  Known(Append(rs, r), s) /\ Chained(Append(rs, r), s)
<1> DEFINE ss == Append(rs, r)
<1>1. Len(ss) = Len(rs) + 1 /\ \A n \in 1..Len(rs) : ss[n] = rs[n]
  OBVIOUS
<1> HIDE DEF ss
<1>2. Known(ss, s)
  BY <1>1 DEF Known
<1>3. Chained(ss, s)
  <2> SUFFICES ASSUME NEW i \in 1..(Len(s) - 1) PROVE Follows(ss, s[i], s[i + 1])
    BY DEF Chained
  <2>1. ss[s[i].n] = rs[s[i].n]
    BY <1>1 DEF Known
  <2> QED
    BY <2>1 DEF Chained, Follows, Continues, TokenOf
<1> QED
  BY <1>2, <1>3 DEF ss

(* The tokens of a new request. *)
LEMMA NewTokens ==
    ASSUME NEW rs \in Seq(Requests), NEW n \in 1..Len(rs), n = Len(rs)
    PROVE  LET p == Tokens(rs[n], n) IN
           /\ p \in Seq(Token) /\ Chained(rs, p)
           /\ \A i \in 1..Len(p) : p[i].n = n /\ p[i].kind # "line"
           /\ p # <<>> => ~Continues(rs, p[Len(p)])
           /\ rs[n].command \in Storage => p # <<>> /\ p[1] = TokenOf(rs, n, 1)
<1> DEFINE r == rs[n]
<1> DEFINE p == Tokens(r, n)
<1>1. r \in Request /\ r.size \in Nat
  BY ConnectionAssumption DEF Request
<1>2. CASE r.command \notin Storage
  BY <1>2 DEF Tokens, Chained
<1>3. CASE r.command \in Storage
  <2>1. p = [i \in 1..(r.size + 1) |-> TokenOf(rs, n, i)]
    BY <1>3 DEF Tokens, TokenOf
  <2>2. \A i \in 1..(r.size + 1) : TokenOf(rs, n, i) \in Token
    BY <1>1 DEF TokenOf, Token
  <2>3. p \in Seq(Token) /\ Len(p) = r.size + 1 /\ \A i \in 1..Len(p) : p[i] = TokenOf(rs, n, i)
    BY <2>1, <2>2, <1>1
  <2> HIDE DEF p
  <2>4. ASSUME NEW i \in 1..Len(p) PROVE p[i].n = n /\ p[i].i = i /\ p[i].kind # "line"
    <3>1. p[i] = TokenOf(rs, n, i)
      BY <2>3
    <3> QED
      BY <3>1 DEF TokenOf
  <2>5. Chained(rs, p)
    <3> SUFFICES ASSUME NEW i \in 1..(Len(p) - 1) PROVE Follows(rs, p[i], p[i + 1])
      BY DEF Chained
    <3>1. i \in 1..Len(p) /\ i + 1 \in 1..Len(p)
      BY <2>3, <1>1
    <3>2. p[i].n = n /\ p[i].i = i /\ p[i + 1] = TokenOf(rs, n, i + 1)
      BY <3>1, <2>3, <2>4
    <3> QED
      BY <3>2 DEF Follows
  <2>6. p # <<>> /\ p[1] = TokenOf(rs, n, 1)
    BY <2>3, <1>1
  <2>7. p[Len(p)].kind = "eol"
    <3>1. Len(p) \in 1..Len(p) /\ Len(p) > rs[n].size
      BY <2>3, <1>1
    <3>2. p[Len(p)] = TokenOf(rs, n, Len(p))
      BY <3>1, <2>3
    <3> QED
      BY <3>1, <3>2 DEF TokenOf
  <2> QED
    BY <2>3, <2>4, <2>5, <2>6, <2>7 DEF p, Continues
<1> QED
  BY <1>2, <1>3

(* A client begins a request. *)
LEMMA FramingLine ==
    ASSUME NEW rs \in Seq(Requests), NEW s \in Seq(Token), Framing(rs, s, <<>>), NEW r \in Requests,
           NEW n, n = Len(rs) + 1
    PROVE  LET u == Append(s, [kind |-> "line", n |-> n, i |-> 0]) IN
           /\ u \in Seq(Token) /\ Tokens(r, n) \in Seq(Token)
           /\ Framing(Append(rs, r), u, Tokens(r, n))
<1> DEFINE ss == Append(rs, r)
<1> DEFINE x == [kind |-> "line", n |-> n, i |-> 0]
<1> DEFINE u == Append(s, x)
<1> DEFINE p == Tokens(r, n)
<1>1. ss \in Seq(Requests) /\ Len(ss) = n /\ ss[n] = r /\ n \in 1..Len(ss) /\ n \in Nat
  OBVIOUS
<1>2. x \in Token /\ x.kind = "line" /\ x.n = n /\ x.i = 0
  BY <1>1 DEF Token
<1>3. Known(ss, s) /\ Chained(ss, s)
  BY ChainedKept DEF Framing
<1> HIDE DEF ss, x
<1>4. /\ p \in Seq(Token) /\ Chained(ss, p)
      /\ \A i \in 1..Len(p) : p[i].n = n /\ p[i].kind # "line"
      /\ p # <<>> => ~Continues(ss, p[Len(p)])
      /\ r.command \in Storage => p # <<>> /\ p[1] = TokenOf(ss, n, 1)
  BY <1>1, NewTokens
<1> HIDE DEF p
<1>5. u \in Seq(Token) /\ Len(u) = Len(s) + 1 /\ u[Len(u)] = x /\ \A i \in 1..Len(s) : u[i] = s[i]
  BY <1>2
<1> HIDE DEF u
<1>6. Known(ss, u)
  <2> SUFFICES ASSUME NEW i \in 1..Len(u)
               PROVE  u[i].n \in 1..Len(ss) /\ (u[i].kind = "line" => u[i].i = 0)
    BY DEF Known
  <2>1. CASE i \in 1..Len(s)
    BY <2>1, <1>3, <1>5 DEF Known
  <2>2. CASE i = Len(u)
    BY <2>2, <1>1, <1>2, <1>5
  <2> QED
    BY <2>1, <2>2, <1>5
<1>7. Chained(ss, u)
  <2> SUFFICES ASSUME NEW i \in 1..(Len(u) - 1) PROVE Follows(ss, u[i], u[i + 1])
    BY DEF Chained
  <2>1. CASE i \in 1..(Len(s) - 1)
    <3>1. i \in 1..Len(s) /\ i + 1 \in 1..Len(s)
      BY <2>1
    <3>2. u[i] = s[i] /\ u[i + 1] = s[i + 1]
      BY <3>1, <1>5
    <3> QED
      BY <3>2, <2>1, <1>3 DEF Chained
  <2>2. CASE i = Len(s)
    <3>1. s # <<>> /\ u[i] = s[Len(s)] /\ ~Continues(rs, s[Len(s)])
      BY <2>2, <1>5 DEF Framing
    <3>2. s[Len(s)].n \in 1..Len(rs)
      BY <3>1 DEF Framing, Known
    <3>3. ~Continues(ss, s[Len(s)])
      BY <3>1, <3>2 DEF ss, Continues
    <3> QED
      BY <3>1, <3>3 DEF Follows
  <2> QED
    BY <2>1, <2>2, <1>5
<1>8. Continues(ss, x) => p # <<>> /\ Follows(ss, x, p[1])
  BY <1>1, <1>2, <1>4 DEF Continues, Follows
<1>9. Framing(ss, u, p)
  BY <1>1, <1>4, <1>5, <1>6, <1>7, <1>8 DEF Framing
<1> QED
  BY <1>4, <1>5, <1>9 DEF ss, u, x, p


-----------------------------------------------------------------------------
(* Steps *)

ConnState == [at : {"out", "backlog", "refused", "line", "data", "closed"},
              n : Nat, data : Seq(Nat)]

LEMMA ClientFacts ==
    ASSUME ConnInv, NEW c \in Clients
    PROVE  /\ sent[c] \in Seq(Requests) /\ stream[c] \in Seq(Token) /\ pending[c] \in Seq(Token)
           /\ conn[c] \in ConnState /\ Len(sent[c]) \in Nat
           /\ Framing(sent[c], stream[c], pending[c])
           /\ Reading(sent[c], stream[c], pending[c], conn[c]) /\ InBlock(sent[c], conn[c])
           /\ \A n \in 1..Len(sent[c]) : sent[c][n] \in Request
<1>1. /\ sent[c] \in Seq(Requests) /\ stream[c] \in Seq(Token) /\ pending[c] \in Seq(Token)
      /\ conn[c] \in ConnState
  BY DEF ConnInv, Types, ConnState
<1>2. Len(sent[c]) \in Nat /\ \A n \in 1..Len(sent[c]) : sent[c][n] \in Request
  BY <1>1, ConnectionAssumption
<1> QED
  BY <1>1, <1>2 DEF ConnInv, ClientInv

LEMMA HeadFacts ==
    ASSUME ConnInv, NEW c \in Clients, stream[c] # <<>>
    PROVE  LET x == Head(stream[c]) IN
           /\ x = stream[c][1] /\ x \in Token /\ x.n \in 1..Len(sent[c]) /\ x.n \in Nat
           /\ x.kind = "line" => x.i = 0
           /\ x.i \in Nat
           /\ sent[c][x.n] \in Request
           /\ Tail(stream[c]) \in Seq(Token) /\ Framing(sent[c], Tail(stream[c]), pending[c])
<1>1. stream[c] \in Seq(Token) /\ Framing(sent[c], stream[c], pending[c]) /\ Len(sent[c]) \in Nat
  BY ClientFacts
<1>2. Head(stream[c]) = stream[c][1] /\ stream[c][1] \in Token /\ 1 \in 1..Len(stream[c])
  BY <1>1
<1>3. stream[c][1].n \in 1..Len(sent[c]) /\ (stream[c][1].kind = "line" => stream[c][1].i = 0)
  BY <1>1, <1>2 DEF Framing, Known
<1>4. Tail(stream[c]) \in Seq(Token) /\ Framing(sent[c], Tail(stream[c]), pending[c])
  BY ClientFacts, FramingTail
<1>5. sent[c][stream[c][1].n] \in Request
  BY <1>3, ClientFacts
<1>6. stream[c][1].i \in Nat /\ stream[c][1].n \in Nat
  BY <1>2 DEF Token
<1> QED
  BY <1>2, <1>3, <1>4, <1>5, <1>6

(* A step of the listener or of the loop of connection c. *)
LEMMA LoopStep ==
    ASSUME ConnInv, NEW c \in Clients, NEW s \in Seq(Token), NEW cn \in ConnState,
           sent' = sent, pending' = pending, gone' = gone,
           backlog' \in Seq(Clients), stopped' \in BOOLEAN,
           stream' = [stream EXCEPT ![c] = s], conn' = [conn EXCEPT ![c] = cn],
           busy' \in {busy, Nil, c}, busy' = c => cn.at \in {"line", "data"},
           cache' \in [Keys -> Seq(Block)], due' \in Nat, events' \in Nat,
           said' \in [Clients -> Seq(Nat)],
           Framing(sent[c], s, pending[c]), Reading(sent[c], s, pending[c], cn), InBlock(sent[c], cn),
           BlocksSound'
    PROVE  ConnInv'
<1>1. Types'
  BY DEF ConnInv, Types, ConnState
<1>2. ASSUME NEW d \in Clients PROVE Busy(d)'
  <2>1. CASE d = c
    BY <2>1 DEF Busy, ConnInv, Types
  <2>2. CASE d # c
    BY <2>2, ConnectionAssumption DEF Busy, ConnInv, Types
  <2> QED
    BY <2>1, <2>2
<1>3. ASSUME NEW d \in Clients
      PROVE  ClientInv(sent'[d], stream'[d], pending'[d], conn'[d])
  <2>1. CASE d = c
    <3>1. stream'[c] = s /\ conn'[c] = cn /\ sent'[c] = sent[c] /\ pending'[c] = pending[c]
      BY DEF ConnInv, Types
    <3> QED
      BY <2>1, <3>1 DEF ClientInv
  <2>2. CASE d # c
    <3>1. stream'[d] = stream[d] /\ conn'[d] = conn[d] /\ sent'[d] = sent[d] /\ pending'[d] = pending[d]
      BY <2>2 DEF ConnInv, Types
    <3> QED
      BY <3>1 DEF ConnInv
  <2> QED
    BY <2>1, <2>2
<1> QED
  BY <1>1, <1>2, <1>3 DEF ConnInv

LEMMA SameBlocks ==
    ASSUME ConnInv, cache' = cache, sent' = sent, pending' = pending, gone' = gone
    PROVE  BlocksSound' /\ cache' \in [Keys -> Seq(Block)]
BY DEF ConnInv, BlocksSound, Types

LEMMA SaidTyped ==
    ASSUME ConnInv, NEW c \in Clients, NEW n \in Nat
    PROVE  /\ said \in [Clients -> Seq(Nat)]
           /\ [said EXCEPT ![c] = Append(@, n)] \in [Clients -> Seq(Nat)]
<1>1. said \in [Clients -> Seq(Nat)]
  BY DEF ConnInv, Types
<1>2. Append(said[c], n) \in Seq(Nat)
  BY <1>1
<1> QED
  BY <1>1, <1>2

LEMMA StatesTyped ==
    /\ Waiting \in ConnState /\ Closed \in ConnState /\ Refused \in ConnState /\ Out \in ConnState
    /\ Waiting.at = "line" /\ Closed.at = "closed" /\ Refused.at = "refused" /\ Out.at = "out"
<1>1. <<>> \in Seq(Nat)
  OBVIOUS
<1> QED
  BY <1>1 DEF Waiting, Closed, Refused, Out, ConnState

(* Of a loop that is at a line, or has ended, nothing more is asked.        *)
LEMMA LoopAtLine ==
    ASSUME ConnInv, NEW c \in Clients, NEW s \in Seq(Token), Framing(sent[c], s, pending[c]),
           sent' = sent, pending' = pending, gone' = gone,
           backlog' \in Seq(Clients), stopped' \in BOOLEAN,
           \/ /\ stream' = [stream EXCEPT ![c] = s] /\ conn' = [conn EXCEPT ![c] = Waiting]
              /\ busy' \in {busy, c}
           \/ Close(c),
           cache' \in [Keys -> Seq(Block)], due' \in Nat, events' \in Nat,
           said' \in [Clients -> Seq(Nat)], BlocksSound'
    PROVE  ConnInv'
<1>1. CASE /\ stream' = [stream EXCEPT ![c] = s] /\ conn' = [conn EXCEPT ![c] = Waiting]
           /\ busy' \in {busy, c}
  <2>1. Reading(sent[c], s, pending[c], Waiting) /\ InBlock(sent[c], Waiting)
    BY StatesTyped DEF Reading, InBlock
  <2> QED
    BY <1>1, <2>1, StatesTyped, LoopStep
<1>2. CASE Close(c)
  <2>1. /\ stream' = [stream EXCEPT ![c] = <<>>] /\ conn' = [conn EXCEPT ![c] = Closed]
        /\ busy' \in {busy, Nil} /\ busy' # c
    BY <1>2, ConnectionAssumption DEF Close, Freed
  <2>2. Reading(sent[c], <<>>, pending[c], Closed) /\ InBlock(sent[c], Closed)
    BY StatesTyped DEF Reading, InBlock
  <2>3. <<>> \in Seq(Token) /\ Framing(sent[c], <<>>, pending[c])
    BY ClientFacts, FramingEmpty
  <2> QED
    BY <2>1, <2>2, <2>3, StatesTyped, LoopStep
<1> QED
  BY <1>1, <1>2

LEMMA FirstOfAppend ==
    ASSUME NEW S, NEW s \in Seq(S), NEW x
    PROVE  Append(s, x) # <<>> /\ Append(s, x)[1] = IF s = <<>> THEN x ELSE s[1]
<1>1. CASE s = <<>>
  BY <1>1
<1>2. CASE s # <<>>
  <2>1. 1 \in 1..Len(s)
    BY <1>2
  <2> QED
    BY <1>2, <2>1
<1> QED
  BY <1>1, <1>2

LEMMA OneMore ==
    ASSUME NEW S, NEW s \in Seq(S), NEW b \in S
    PROVE  /\ Append(s, b) \in Seq(S)
           /\ \A i \in 1..Len(Append(s, b)) :
                Append(s, b)[i] = b \/ \E j \in 1..Len(s) : Append(s, b)[i] = s[j]
           /\ <<b>> \o s \in Seq(S)
           /\ \A i \in 1..Len(<<b>> \o s) :
                (<<b>> \o s)[i] = b \/ \E j \in 1..Len(s) : (<<b>> \o s)[i] = s[j]
<1>1. Append(s, b) \in Seq(S)
  OBVIOUS
<1>2. ASSUME NEW i \in 1..Len(Append(s, b))
      PROVE  Append(s, b)[i] = b \/ \E j \in 1..Len(s) : Append(s, b)[i] = s[j]
  <2>1. i \in 1..Len(s) => Append(s, b)[i] = s[i]
    OBVIOUS
  <2>2. i \notin 1..Len(s) => Append(s, b)[i] = b
    OBVIOUS
  <2> QED
    BY <2>1, <2>2
<1>3. <<b>> \o s \in Seq(S) /\ Len(<<b>> \o s) = Len(s) + 1
  OBVIOUS
<1>4. ASSUME NEW i \in 1..Len(<<b>> \o s)
      PROVE  (<<b>> \o s)[i] = b \/ \E j \in 1..Len(s) : (<<b>> \o s)[i] = s[j]
  <2>1. CASE i = 1
    BY <2>1
  <2>2. CASE i # 1
    <3>1. i - 1 \in 1..Len(s) /\ (<<b>> \o s)[i] = s[i - 1]
      BY <2>2, <1>3
    <3> QED
      BY <3>1
  <2> QED
    BY <2>1, <2>2
<1> QED
  BY <1>1, <1>2, <1>3, <1>4

(* What a handler leaves in the cache. *)
LEMMA EffectSound ==
    ASSUME ConnInv, NEW c \in Clients, NEW n \in 1..Len(sent[c]), NEW data \in Seq(Nat),
           Effect(c, sent[c][n], n, data), sent' = sent, pending' = pending, gone' = gone,
           sent[c][n].command \in Storage =>
               Sound([client |-> c, n |-> n, data |-> data], sent[c], pending[c], gone[c])
    PROVE  BlocksSound' /\ cache' \in [Keys -> Seq(Block)] /\ due' \in Nat
<1> DEFINE r == sent[c][n]
<1> DEFINE b == [client |-> c, n |-> n, data |-> data]
<1>1. r \in Request /\ r.key \in Keys /\ cache \in [Keys -> Seq(Block)] /\ due \in Nat
  BY ClientFacts DEF ConnInv, Types, Request
<1>2. b \in Block /\ b.client = c /\ n \in Nat
  <2>1. n \in Nat
    BY ClientFacts
  <2> QED
    BY <2>1 DEF Block
<1>3. CASE UNCHANGED cacheVars
  BY <1>3, <1>1, SameBlocks DEF cacheVars
<1>4. ASSUME NEW k \in Keys, cache' = [cache EXCEPT ![k] = <<>>] \/ cache' = [j \in Keys |-> <<>>],
             due' = due
      PROVE  BlocksSound' /\ cache' \in [Keys -> Seq(Block)] /\ due' \in Nat
  <2>2. Len(<<>>) = 0 /\ <<>> \in Seq(Block)
    OBVIOUS
  <2>1. cache' \in [Keys -> Seq(Block)] /\ \A j \in Keys : cache'[j] = cache[j] \/ cache'[j] = <<>>
    <3>1. CASE cache' = [cache EXCEPT ![k] = <<>>]
      BY <3>1, <1>1, <2>2
    <3>2. CASE cache' = [j \in Keys |-> <<>>]
      BY <3>2, <2>2
    <3> QED
      BY <1>4, <3>1, <3>2
  <2>3. BlocksSound'
    BY <2>1, <2>2 DEF ConnInv, BlocksSound
  <2> QED
    BY <2>1, <2>3, <1>1, <1>4
<1>5. ASSUME r.command \in Storage, cache' = [cache EXCEPT ![r.key] = Entry(r, b)], due' = due
      PROVE  BlocksSound' /\ cache' \in [Keys -> Seq(Block)] /\ due' \in Nat
  <2> DEFINE u == Entry(r, b)
  <2> HIDE DEF b
  <2>1. cache[r.key] \in Seq(Block)
    BY <1>1
  <2>2. /\ u \in Seq(Block)
        /\ \A i \in 1..Len(u) : u[i] = b \/ \E j \in 1..Len(cache[r.key]) : u[i] = cache[r.key][j]
    <3>1. CASE r.command = "append"
      <4>1. u = Append(cache[r.key], b)
        BY <3>1 DEF Entry
      <4> HIDE DEF u
      <4>2. /\ Append(cache[r.key], b) \in Seq(Block)
            /\ \A i \in 1..Len(Append(cache[r.key], b)) :
                  \/ Append(cache[r.key], b)[i] = b
                  \/ \E j \in 1..Len(cache[r.key]) : Append(cache[r.key], b)[i] = cache[r.key][j]
        BY <2>1, <1>2, OneMore
      <4> QED
        BY <4>1, <4>2
    <3>2. CASE r.command = "prepend"
      <4>1. u = <<b>> \o cache[r.key]
        BY <3>2 DEF Entry
      <4> HIDE DEF u
      <4>2. /\ <<b>> \o cache[r.key] \in Seq(Block)
            /\ \A i \in 1..Len(<<b>> \o cache[r.key]) :
                  \/ (<<b>> \o cache[r.key])[i] = b
                  \/ \E j \in 1..Len(cache[r.key]) : (<<b>> \o cache[r.key])[i] = cache[r.key][j]
        BY <2>1, <1>2, OneMore
      <4> QED
        BY <4>1, <4>2
    <3>3. CASE r.command \notin {"append", "prepend"}
      <4>1. u = <<b>>
        BY <3>3 DEF Entry
      <4> QED
        BY <4>1, <1>2
    <3> QED
      BY <3>1, <3>2, <3>3
  <2> HIDE DEF u
  <2>3. cache' \in [Keys -> Seq(Block)] /\ cache'[r.key] = u
        /\ \A j \in Keys : j # r.key => cache'[j] = cache[j]
    BY <1>1, <1>5, <2>2 DEF u
  <2>4. Sound(b, sent[b.client], pending[b.client], gone[b.client])
    BY <1>2, <1>5 DEF b
  <2>5. BlocksSound'
    <3> SUFFICES ASSUME NEW k \in Keys, NEW i \in 1..Len(cache'[k])
                 PROVE  LET x == cache'[k][i] IN
                        Sound(x, sent[x.client], pending[x.client], gone[x.client])
      BY DEF BlocksSound
    <3>1. CASE k # r.key
      BY <3>1, <2>3 DEF ConnInv, BlocksSound
    <3>2. CASE k = r.key
      BY <3>2, <2>2, <2>3, <2>4, <1>1 DEF ConnInv, BlocksSound
    <3> QED
      BY <3>1, <3>2
  <2> QED
    BY <2>3, <2>5, <1>1, <1>5
<1>6. CASE r.command = "flush_all" /\ r.later /\ due' = due + 1 /\ UNCHANGED cache
  BY <1>6, <1>1, SameBlocks
<1>7. CASE r.command \in Storage /\ ~OverCapacity(r, data) /\ ~r.fails
  <2>1. PICK stored \in Stores(r) :
            cache' = (IF stored THEN [cache EXCEPT ![r.key] = Entry(r, b)] ELSE cache) /\ due' = due
    BY <1>7, Zenon DEF Effect, Storage
  <2> QED
    BY <2>1, <1>3, <1>5, <1>7 DEF cacheVars
<1> QED
  <2>1. \/ UNCHANGED cacheVars
        \/ r.command \in Storage /\ ~OverCapacity(r, data) /\ ~r.fails
        \/ cache' = [cache EXCEPT ![r.key] = <<>>] /\ due' = due
        \/ cache' = [j \in Keys |-> <<>>] /\ due' = due
        \/ r.command = "flush_all" /\ r.later /\ due' = due + 1 /\ UNCHANGED cache
    BY DEF Effect
  <2> QED
    BY <2>1, <1>1, <1>3, <1>4, <1>6, <1>7


-----------------------------------------------------------------------------
(* Every action keeps the invariant *)

LEMMA StrayInside ==
    ASSUME NEW c, stream[c] \in Seq(Token), stream[c] # <<>>, StrayLine(c) # 0
    PROVE  StrayLine(c) \in 1..Len(stream[c])
<1>1. CASE Head(stream[c]).kind = "rest"
  BY <1>1 DEF StrayLine
<1>2. CASE Head(stream[c]).kind # "rest"
  <2>1. StrayLine(c) \in DOMAIN stream[c]
    BY <1>2 DEF StrayLine
  <2> QED
    BY <2>1
<1> QED
  BY <1>1, <1>2

LEMMA LineSteps ==
    ASSUME ConnInv, NEW c \in Clients,
           ReadTooLong(c) \/ ReadBlank(c) \/ ReadMalformed(c) \/ ReadStray(c)
    PROVE  ConnInv'
<1> USE DEF clientVars, serverVars, cacheVars
<1>1. /\ sent' = sent /\ pending' = pending /\ gone' = gone /\ backlog' = backlog
      /\ stopped' = stopped /\ cache' = cache /\ due' = due /\ events' = events
  BY DEF ReadTooLong, ReadBlank, ReadMalformed, ReadStray
<1>2. /\ backlog' \in Seq(Clients) /\ stopped' \in BOOLEAN /\ due' \in Nat /\ events' \in Nat
      /\ BlocksSound' /\ cache' \in [Keys -> Seq(Block)]
  BY <1>1, SameBlocks DEF ConnInv, Types
<1>3. CASE ReadTooLong(c)
  <2> DEFINE s == <<[kind |-> "rest", n |-> Head(stream[c]).n, i |-> 0]>> \o Tail(stream[c])
  <2>1. stream[c] # <<>>
    BY <1>3 DEF ReadTooLong, NextLine
  <2>2. s \in Seq(Token) /\ Framing(sent[c], s, pending[c])
    BY <2>1, ClientFacts, FramingRest, HeadFacts
  <2>3. said' \in [Clients -> Seq(Nat)]
    BY <1>3, <2>1, HeadFacts, SaidTyped DEF ReadTooLong
  <2>4. stream' = [stream EXCEPT ![c] = s] /\ conn' = [conn EXCEPT ![c] = Waiting] /\ busy' = busy
    BY <1>3 DEF ReadTooLong, Consume, Continue
  <2> HIDE DEF s
  <2> QED
    BY <1>1, <1>2, <2>2, <2>3, <2>4, LoopAtLine
<1>4. CASE ReadBlank(c)
  <2>1. Close(c) /\ said' = said
    BY <1>4 DEF ReadBlank
  <2>2. said' \in [Clients -> Seq(Nat)]
    BY <2>1 DEF ConnInv, Types
  <2>3. stream[c] \in Seq(Token) /\ Framing(sent[c], stream[c], pending[c])
    BY ClientFacts
  <2> QED
    BY <1>1, <1>2, <2>1, <2>2, <2>3, LoopAtLine
<1>5. CASE ReadMalformed(c)
  <2>1. stream[c] # <<>>
    BY <1>5 DEF ReadMalformed, NextLine
  <2>2. Tail(stream[c]) \in Seq(Token) /\ Framing(sent[c], Tail(stream[c]), pending[c])
    BY <2>1, HeadFacts
  <2>3. said' \in [Clients -> Seq(Nat)]
    BY <1>5, <2>1, HeadFacts, SaidTyped DEF ReadMalformed
  <2>4. /\ stream' = [stream EXCEPT ![c] = Tail(stream[c])]
        /\ conn' = [conn EXCEPT ![c] = Waiting] /\ busy' = busy
    BY <1>5 DEF ReadMalformed, Consume, Continue
  <2> QED
    BY <1>1, <1>2, <2>2, <2>3, <2>4, LoopAtLine
<1>6. CASE ReadStray(c)
  <2> DEFINE s == SubSeq(stream[c], StrayLine(c) + 1, Len(stream[c]))
  <2>1. stream[c] # <<>> /\ StrayLine(c) # 0 /\ stream[c] \in Seq(Token)
    BY <1>6, ClientFacts DEF ReadStray
  <2>2. StrayLine(c) \in 1..Len(stream[c])
    BY <2>1, StrayInside
  <2>3. s \in Seq(Token) /\ Framing(sent[c], s, pending[c])
    BY <2>1, <2>2, ClientFacts, FramingSuffix
  <2>4. said' \in [Clients -> Seq(Nat)]
    BY <1>6, SaidTyped DEF ReadStray
  <2>5. stream' = [stream EXCEPT ![c] = s] /\ conn' = [conn EXCEPT ![c] = Waiting] /\ busy' = busy
    BY <1>6 DEF ReadStray, Consume, Continue
  <2> HIDE DEF s
  <2> QED
    BY <1>1, <1>2, <2>3, <2>4, <2>5, LoopAtLine
<1> QED
  BY <1>3, <1>4, <1>5, <1>6

LEMMA CommandStep ==
    ASSUME ConnInv, NEW c \in Clients, ReadCommand(c)
    PROVE  ConnInv'
<1> USE DEF clientVars, serverVars
<1> DEFINE n == Head(stream[c]).n
<1>1. /\ sent' = sent /\ pending' = pending /\ gone' = gone /\ backlog' = backlog
      /\ stopped' = stopped /\ events' = events
  BY DEF ReadCommand
<1>2. stream[c] # <<>> /\ sent[c][n].command \notin Storage
  BY DEF ReadCommand, NextLine, Line
<1>3. n \in 1..Len(sent[c]) /\ n \in Nat
  BY <1>2, HeadFacts
<1>4. Effect(c, sent[c][n], n, <<>>) /\ Says(c, sent[c][n], n)
  BY DEF ReadCommand, Line
<1>5. Tail(stream[c]) \in Seq(Token) /\ Framing(sent[c], Tail(stream[c]), pending[c])
  BY <1>2, HeadFacts
<1>6. \/ /\ stream' = [stream EXCEPT ![c] = Tail(stream[c])]
         /\ conn' = [conn EXCEPT ![c] = Waiting] /\ busy' = busy
      \/ Close(c)
  BY DEF ReadCommand, Consume, Continue
<1> HIDE DEF n
<1>7. BlocksSound' /\ cache' \in [Keys -> Seq(Block)] /\ due' \in Nat
  <2>1. <<>> \in Seq(Nat)
    OBVIOUS
  <2> QED
    BY <2>1, <1>1, <1>2, <1>3, <1>4, EffectSound
<1>8. said' \in [Clients -> Seq(Nat)]
  BY <1>3, <1>4, SaidTyped DEF Says
<1>9. backlog' \in Seq(Clients) /\ stopped' \in BOOLEAN /\ events' \in Nat
  BY <1>1 DEF ConnInv, Types
<1> QED
  BY <1>1, <1>5, <1>6, <1>7, <1>8, <1>9, LoopAtLine

(* The loop reads a block *)

LEMMA StorageStep ==
    ASSUME ConnInv, NEW c \in Clients, ReadStorage(c)
    PROVE  ConnInv'
<1> USE DEF clientVars, serverVars, cacheVars
<1> DEFINE n == Head(stream[c]).n
<1> DEFINE cn == [at |-> "data", n |-> n, data |-> <<>>]
<1> DEFINE s == Tail(stream[c])
<1>1. /\ sent' = sent /\ pending' = pending /\ gone' = gone /\ backlog' = backlog
      /\ stopped' = stopped /\ cache' = cache /\ due' = due /\ events' = events /\ said' = said
      /\ busy' = busy
      /\ stream' = [stream EXCEPT ![c] = s] /\ conn' = [conn EXCEPT ![c] = cn]
  BY DEF ReadStorage, Consume
<1>2. stream[c] # <<>> /\ sent[c][n].command \in Storage /\ Head(stream[c]).kind = "line"
  BY DEF ReadStorage, NextLine, Line
<1>3. /\ n \in 1..Len(sent[c]) /\ n \in Nat /\ sent[c][n] \in Request
      /\ s \in Seq(Token) /\ Framing(sent[c], s, pending[c])
      /\ Head(stream[c]) = stream[c][1] /\ stream[c][1].i = 0 /\ stream[c][1].n = n
  BY <1>2, HeadFacts
<1>4. Continues(sent[c], stream[c][1])
  BY <1>2, <1>3 DEF Continues
<1>5. /\ s # <<>> => s[1] = TokenOf(sent[c], n, 0 + 1)
      /\ s = <<>> => pending[c] # <<>> /\ pending[c][1] = TokenOf(sent[c], n, 0 + 1)
  BY <1>2, <1>3, <1>4, ClientFacts, NextToken
<1> HIDE DEF s, n
<1>6. cn \in ConnState /\ cn.at = "data" /\ cn.n = n /\ cn.data = <<>> /\ Len(cn.data) = 0
  <2>1. <<>> \in Seq(Nat)
    OBVIOUS
  <2> QED
    BY <2>1, <1>3 DEF ConnState
<1>7. <<>> = [i \in 1..0 |-> i]
  OBVIOUS
<1> HIDE DEF cn
<1>8. Reading(sent[c], s, pending[c], cn)
  BY <1>5, <1>6, <1>7 DEF Reading
<1>9. InBlock(sent[c], cn)
  <2>1. sent[c][n].size >= 0 /\ n \in DOMAIN sent[c]
    BY <1>3, ClientFacts DEF Request
  <2> QED
    BY <2>1, <1>2, <1>6 DEF InBlock
<1>10. /\ backlog' \in Seq(Clients) /\ stopped' \in BOOLEAN /\ due' \in Nat /\ events' \in Nat
       /\ said' \in [Clients -> Seq(Nat)] /\ BlocksSound' /\ cache' \in [Keys -> Seq(Block)]
  BY <1>1, SameBlocks DEF ConnInv, Types
<1> QED
  BY <1>1, <1>3, <1>6, <1>8, <1>9, <1>10, LoopStep

LEMMA PieceStep ==
    ASSUME ConnInv, NEW c \in Clients, ReadPiece(c)
    PROVE  ConnInv'
<1> USE DEF clientVars, serverVars, cacheVars
<1> DEFINE cn == [conn[c] EXCEPT !.data = Append(@, Head(stream[c]).i)]
<1> DEFINE s == Tail(stream[c])
<1>1. /\ sent' = sent /\ pending' = pending /\ gone' = gone /\ backlog' = backlog
      /\ stopped' = stopped /\ cache' = cache /\ due' = due /\ events' = events /\ said' = said
      /\ busy' = busy
      /\ stream' = [stream EXCEPT ![c] = s]
      /\ conn[c].at = "data" /\ Len(conn[c].data) # sent[c][conn[c].n].size /\ stream[c] # <<>>
  BY DEF ReadPiece, Consume, Complete
<1>2. conn' = [conn EXCEPT ![c] = cn]
  BY DEF ReadPiece
<1>3. /\ conn[c] \in ConnState /\ conn[c].n \in DOMAIN sent[c]
      /\ sent[c][conn[c].n].command \in Storage
      /\ Len(conn[c].data) <= sent[c][conn[c].n].size
  BY <1>1, ClientFacts DEF InBlock
<1>4. conn[c].n \in 1..Len(sent[c]) /\ sent[c][conn[c].n].size \in Nat
  <2>1. conn[c].n \in 1..Len(sent[c])
    BY <1>3, ClientFacts
  <2> QED
    BY <2>1, ClientFacts DEF Request
<1>5. /\ conn[c].data = [i \in 1..Len(conn[c].data) |-> i]
      /\ stream[c][1] = TokenOf(sent[c], conn[c].n, Len(conn[c].data) + 1)
  BY <1>1, ClientFacts DEF Reading
<1>6. /\ s \in Seq(Token) /\ Framing(sent[c], s, pending[c])
      /\ Head(stream[c]) = stream[c][1]
  BY <1>1, HeadFacts
<1> DEFINE m == Len(conn[c].data)
<1>7. m \in Nat /\ conn[c].data \in Seq(Nat) /\ m + 1 <= sent[c][conn[c].n].size
  <2>1. conn[c].data \in Seq(Nat)
    BY <1>3 DEF ConnState
  <2>2. m \in Nat
    BY <2>1
  <2> QED
    BY <2>1, <2>2, <1>1, <1>3, <1>4
<1>8. stream[c][1].kind = "piece" /\ stream[c][1].n = conn[c].n /\ stream[c][1].i = m + 1
  BY <1>5, <1>7, <1>4 DEF TokenOf
<1>9. /\ s # <<>> => s[1] = TokenOf(sent[c], conn[c].n, m + 1 + 1)
      /\ s = <<>> => pending[c] # <<>> /\ pending[c][1] = TokenOf(sent[c], conn[c].n, m + 1 + 1)
  <2>1. Continues(sent[c], stream[c][1])
    BY <1>8 DEF Continues
  <2> QED
    BY <2>1, <1>1, <1>8, ClientFacts, NextToken
<1>10. /\ cn.at = "data" /\ cn.n = conn[c].n /\ cn.data = Append(conn[c].data, m + 1)
       /\ cn \in ConnState
  <2>1. cn.at = "data" /\ cn.n = conn[c].n /\ cn.data = Append(conn[c].data, m + 1)
    BY <1>1, <1>3, <1>6, <1>8 DEF ConnState
  <2>2. Append(conn[c].data, m + 1) \in Seq(Nat)
    BY <1>7
  <2> QED
    BY <2>1, <2>2, <1>3, <1>6, <1>8 DEF ConnState
<1>11. cn.data = [i \in 1..(m + 1) |-> i] /\ Len(cn.data) = m + 1
  <2>1. Len(Append(conn[c].data, m + 1)) = m + 1
    BY <1>7
  <2>2. Append(conn[c].data, m + 1) = [i \in 1..(m + 1) |-> i]
    BY <1>5, <1>7
  <2> QED
    BY <2>1, <2>2, <1>10
<1> HIDE DEF cn, s
<1>12. Reading(sent[c], s, pending[c], cn)
  BY <1>9, <1>10, <1>11, <1>7 DEF Reading
<1>13. InBlock(sent[c], cn)
  BY <1>3, <1>7, <1>10, <1>11 DEF InBlock
<1>14. /\ backlog' \in Seq(Clients) /\ stopped' \in BOOLEAN /\ due' \in Nat /\ events' \in Nat
       /\ said' \in [Clients -> Seq(Nat)] /\ BlocksSound' /\ cache' \in [Keys -> Seq(Block)]
  BY <1>1, SameBlocks DEF ConnInv, Types
<1> QED
  BY <1>1, <1>2, <1>6, <1>10, <1>12, <1>13, <1>14, LoopStep

LEMMA BlockSteps ==
    ASSUME ConnInv, NEW c \in Clients, HandleBlock(c) \/ BlockEnds(c)
    PROVE  ConnInv'
<1> USE DEF clientVars, serverVars
<1> DEFINE n == conn[c].n
<1>1. /\ sent' = sent /\ pending' = pending /\ gone' = gone /\ backlog' = backlog
      /\ stopped' = stopped /\ events' = events /\ conn[c].at = "data"
  BY DEF HandleBlock, BlockEnds
<1>2. /\ conn[c] \in ConnState /\ n \in 1..Len(sent[c]) /\ n \in Nat
      /\ sent[c][n].command \in Storage /\ conn[c].data \in Seq(Nat)
  <2>1. conn[c] \in ConnState /\ n \in 1..Len(sent[c]) /\ sent[c][n].command \in Storage
    BY <1>1, ClientFacts DEF InBlock
  <2> QED
    BY <2>1 DEF ConnState
<1>3. backlog' \in Seq(Clients) /\ stopped' \in BOOLEAN /\ events' \in Nat
  BY <1>1 DEF ConnInv, Types
<1>4. CASE HandleBlock(c)
  <2>1. Len(conn[c].data) = sent[c][n].size
    BY <1>4 DEF HandleBlock, Complete
  <2>2. conn[c].data = [i \in 1..sent[c][n].size |-> i]
    BY <1>1, <2>1, ClientFacts DEF Reading
  <2>3. Effect(c, sent[c][n], n, conn[c].data) /\ Says(c, sent[c][n], n)
    BY <1>4 DEF HandleBlock
  <2>4. Sound([client |-> c, n |-> n, data |-> conn[c].data], sent[c], pending[c], gone[c])
    BY <1>2, <2>2 DEF Sound
  <2> HIDE DEF n
  <2>5. BlocksSound' /\ cache' \in [Keys -> Seq(Block)] /\ due' \in Nat
    BY <1>1, <1>2, <2>3, <2>4, EffectSound
  <2>6. said' \in [Clients -> Seq(Nat)]
    BY <1>2, <2>3, SaidTyped DEF Says
  <2>7. PICK s : s = IF stream[c] = <<>> THEN <<>> ELSE Tail(stream[c])
    OBVIOUS
  <2>8. s \in Seq(Token) /\ Framing(sent[c], s, pending[c])
    <3>1. CASE stream[c] = <<>>
      BY <3>1, <2>7, ClientFacts
    <3>2. CASE stream[c] # <<>>
      BY <3>2, <2>7, HeadFacts
    <3> QED
      BY <3>1, <3>2
  <2>9. stream' = [stream EXCEPT ![c] = s] /\ conn' = [conn EXCEPT ![c] = Waiting] /\ busy' = busy
    BY <1>4, <2>7 DEF HandleBlock, Consume, Continue
  <2> QED
    BY <1>1, <1>3, <2>5, <2>6, <2>8, <2>9, LoopAtLine
<1>5. CASE BlockEnds(c)
  <2>1. /\ Len(conn[c].data) # sent[c][n].size /\ stream[c] = <<>> /\ gone[c] = "fin"
        /\ Effect(c, sent[c][n], n, <<>>) /\ Close(c) /\ said' = said
    BY <1>5 DEF BlockEnds, Complete
  <2>2. /\ pending[c] # <<>> /\ pending[c][1] = TokenOf(sent[c], n, Len(conn[c].data) + 1)
        /\ Len(conn[c].data) <= sent[c][n].size
    BY <1>1, <2>1, ClientFacts DEF Reading, InBlock
  <2>3. pending[c][1].kind # "eol" /\ pending[c][1].n = n
    <3>1. sent[c][n].size \in Nat /\ Len(conn[c].data) \in Nat
      BY <1>2, ClientFacts DEF Request
    <3> QED
      BY <3>1, <2>1, <2>2 DEF TokenOf
  <2>4. 1 \in 1..Len(pending[c]) /\ 1 \in DOMAIN pending[c]
    BY <2>2, ClientFacts
  <2>5. n = Len(sent[c])
    BY <2>3, <2>4, ClientFacts DEF Framing
  <2>6. Sound([client |-> c, n |-> n, data |-> <<>>], sent[c], pending[c], gone[c])
    BY <1>2, <2>1, <2>3, <2>4, <2>5 DEF Sound, Left
  <2> HIDE DEF n
  <2>7. BlocksSound' /\ cache' \in [Keys -> Seq(Block)] /\ due' \in Nat
    <3>1. <<>> \in Seq(Nat)
      OBVIOUS
    <3> QED
      BY <3>1, <1>1, <1>2, <2>1, <2>6, EffectSound
  <2>8. said' \in [Clients -> Seq(Nat)]
    BY <2>1 DEF ConnInv, Types
  <2>9. stream[c] \in Seq(Token) /\ Framing(sent[c], stream[c], pending[c])
    BY ClientFacts
  <2> QED
    BY <1>1, <1>3, <2>1, <2>7, <2>8, <2>9, LoopAtLine
<1> QED
  BY <1>4, <1>5

LEMMA OtherLoopSteps ==
    ASSUME ConnInv, NEW c \in Clients, Yield(c) \/ LineEnds(c) \/ ReadFails(c) \/ Accept(c)
    PROVE  ConnInv'
<1> USE DEF clientVars, serverVars, cacheVars
<1>1. /\ sent' = sent /\ pending' = pending /\ gone' = gone
      /\ cache' = cache /\ due' = due /\ events' = events /\ said' = said
  BY DEF Yield, LineEnds, ReadFails, Accept
<1>2. /\ backlog' \in Seq(Clients) /\ stopped' \in BOOLEAN /\ due' \in Nat /\ events' \in Nat
      /\ said' \in [Clients -> Seq(Nat)] /\ BlocksSound' /\ cache' \in [Keys -> Seq(Block)]
  <2>1. backlog' \in Seq(Clients)
    <3>1. backlog \in Seq(Clients) /\ (backlog # <<>> => Tail(backlog) \in Seq(Clients))
      BY DEF ConnInv, Types
    <3> QED
      BY <3>1 DEF Yield, LineEnds, ReadFails, Accept
  <2>2. stopped' \in BOOLEAN
    BY DEF Yield, LineEnds, ReadFails, Accept, ConnInv, Types
  <2> QED
    BY <2>1, <2>2, <1>1, SameBlocks DEF ConnInv, Types
<1>3. stream[c] \in Seq(Token) /\ Framing(sent[c], stream[c], pending[c])
  BY ClientFacts
<1>4. [stream EXCEPT ![c] = stream[c]] = stream /\ [conn EXCEPT ![c] = conn[c]] = conn
  BY DEF ConnInv, Types
<1>5. CASE Yield(c)
  <2>1. stream' = stream /\ conn' = conn /\ busy' = Nil /\ Nil # c
    BY <1>5, ConnectionAssumption DEF Yield
  <2>2. /\ conn[c] \in ConnState /\ Reading(sent[c], stream[c], pending[c], conn[c])
        /\ InBlock(sent[c], conn[c])
    BY ClientFacts
  <2>3. stream' = [stream EXCEPT ![c] = stream[c]] /\ conn' = [conn EXCEPT ![c] = conn[c]]
    BY <1>4, <2>1
  <2> QED
    BY <1>1, <1>2, <1>3, <2>1, <2>2, <2>3, LoopStep
<1>6. CASE LineEnds(c) \/ ReadFails(c)
  <2>1. Close(c)
    BY <1>6 DEF LineEnds, ReadFails
  <2> QED
    BY <1>1, <1>2, <1>3, <2>1, LoopAtLine
<1>7. CASE Accept(c)
  <2>1. stream' = [stream EXCEPT ![c] = stream[c]]
    BY <1>7, <1>4 DEF Accept
  <2>2. conn' = [conn EXCEPT ![c] = Waiting] /\ busy' = c
    BY <1>7 DEF Accept
  <2> QED
    BY <1>1, <1>2, <1>3, <2>1, <2>2, LoopAtLine
<1> QED
  BY <1>5, <1>6, <1>7


(* Clients *)

LEMMA SoundKept ==
    ASSUME ConnInv, cache' = cache, NEW c \in Clients, gone[c] # "fin",
           sent' = sent \/ \E r \in Requests : sent' = [sent EXCEPT ![c] = Append(@, r)],
           \A d \in Clients : d # c => pending'[d] = pending[d] /\ gone'[d] = gone[d]
    PROVE  BlocksSound'
<1> SUFFICES ASSUME NEW k \in Keys, NEW i \in 1..Len(cache[k]), NEW b, b = cache[k][i]
             PROVE  Sound(b, sent'[b.client], pending'[b.client], gone'[b.client])
  BY DEF BlocksSound
<1>1. b.client \in Clients
  <2>1. cache[k] \in Seq(Block)
    BY DEF ConnInv, Types
  <2>2. b \in Block
    BY <2>1
  <2> QED
    BY <2>2 DEF Block
<1>2. Sound(b, sent[b.client], pending[b.client], gone[b.client])
  BY DEF ConnInv, BlocksSound
<1>3. CASE b.client # c
  <2>1. sent'[b.client] = sent[b.client]
    BY <1>1, <1>3 DEF ConnInv, Types
  <2> QED
    BY <1>1, <1>2, <1>3, <2>1
<1>4. CASE b.client = c
  <2>1. b.n \in 1..Len(sent[c]) /\ b.data = [j \in 1..sent[c][b.n].size |-> j]
    BY <1>2, <1>4 DEF Sound, Left
  <2>2. b.n \in 1..Len(sent'[c]) /\ sent'[c][b.n] = sent[c][b.n]
    <3>1. CASE sent' = sent
      BY <3>1, <2>1
    <3>2. ASSUME NEW r \in Requests, sent' = [sent EXCEPT ![c] = Append(@, r)]
          PROVE  b.n \in 1..Len(sent'[c]) /\ sent'[c][b.n] = sent[c][b.n]
      <4>1. sent'[c] = Append(sent[c], r) /\ sent[c] \in Seq(Requests)
        BY <3>2 DEF ConnInv, Types
      <4> QED
        BY <4>1, <2>1
    <3> QED
      BY <3>1, <3>2
  <2> QED
    BY <1>4, <2>1, <2>2 DEF Sound
<1> QED
  BY <1>3, <1>4

(* What a client does, to its own part of the state.                        *)
LEMMA ClientStep ==
    ASSUME ConnInv, NEW c \in Clients, NEW rs \in Seq(Requests), NEW s \in Seq(Token),
           NEW p \in Seq(Token), NEW g \in {"no", "fin", "reset"},
           sent' = [sent EXCEPT ![c] = rs], stream' = [stream EXCEPT ![c] = s],
           pending' = [pending EXCEPT ![c] = p], gone' = [gone EXCEPT ![c] = g],
           UNCHANGED <<serverVars, conn, busy, cacheVars, said>>, events' \in Nat,
           ClientInv(rs, s, p, conn[c]), BlocksSound'
    PROVE  ConnInv'
<1> USE DEF serverVars, cacheVars
<1>1. Types'
  BY DEF ConnInv, Types
<1>2. \A d \in Clients : Busy(d)'
  BY DEF ConnInv, Busy
<1>3. ASSUME NEW d \in Clients
      PROVE  ClientInv(sent'[d], stream'[d], pending'[d], conn'[d])
  <2>1. CASE d = c
    <3>1. sent'[c] = rs /\ stream'[c] = s /\ pending'[c] = p /\ conn'[c] = conn[c]
      BY DEF ConnInv, Types
    <3> QED
      BY <2>1, <3>1
  <2>2. CASE d # c
    <3>1. stream'[d] = stream[d] /\ conn'[d] = conn[d] /\ sent'[d] = sent[d] /\ pending'[d] = pending[d]
      BY <2>2 DEF ConnInv, Types
    <3> QED
      BY <3>1 DEF ConnInv
  <2> QED
    BY <2>1, <2>2
<1> QED
  BY <1>1, <1>2, <1>3 DEF ConnInv

LEMMA SendSteps ==
    ASSUME ConnInv, NEW c \in Clients, SendLine(c) \/ SendMore(c) \/ Leave(c)
    PROVE  ConnInv'
<1> USE DEF serverVars
<1>1. gone[c] = "no" /\ UNCHANGED <<serverVars, conn, busy, cacheVars, said>> /\ cache' = cache
  <2>1. CASE SendLine(c)
    BY <2>1 DEF SendLine, Connected, cacheVars
  <2>2. CASE SendMore(c)
    BY <2>2 DEF SendMore, Connected, cacheVars
  <2>3. CASE Leave(c)
    BY <2>3 DEF Leave, Connected, cacheVars
  <2> QED
    BY <2>1, <2>2, <2>3
<1>2. events' \in Nat
  <2>1. events \in Nat
    BY DEF ConnInv, Types
  <2>2. Event \/ events' = events
    BY DEF SendLine, SendMore, Leave
  <2> QED
    BY <2>1, <2>2 DEF Event
<1>3. /\ sent[c] \in Seq(Requests) /\ stream[c] \in Seq(Token) /\ pending[c] \in Seq(Token)
      /\ Framing(sent[c], stream[c], pending[c])
      /\ Reading(sent[c], stream[c], pending[c], conn[c]) /\ InBlock(sent[c], conn[c])
      /\ Len(sent[c]) \in Nat /\ conn[c] \in ConnState
  BY ClientFacts
<1>4. /\ [sent EXCEPT ![c] = sent[c]] = sent /\ [stream EXCEPT ![c] = stream[c]] = stream
      /\ [pending EXCEPT ![c] = pending[c]] = pending /\ [gone EXCEPT ![c] = gone[c]] = gone
  BY DEF ConnInv, Types
<1>5. ASSUME NEW r \in Requests, SendLine(c),
             NEW n, n = Len(sent[c]) + 1,
             sent' = [sent EXCEPT ![c] = Append(@, r)],
             stream' = [stream EXCEPT ![c] = Append(@, [kind |-> "line", n |-> n, i |-> 0])],
             pending' = [pending EXCEPT ![c] = Tokens(r, n)]
      PROVE  ConnInv'
  <2> DEFINE rs == Append(sent[c], r)
  <2> DEFINE x == [kind |-> "line", n |-> n, i |-> 0]
  <2> DEFINE s == Append(stream[c], x)
  <2> DEFINE p == Tokens(r, n)
  <2>1. pending[c] = <<>> /\ gone' = gone
    BY <1>5 DEF SendLine
  <2>2. s \in Seq(Token) /\ p \in Seq(Token) /\ Framing(rs, s, p)
    BY <1>3, <1>5, <2>1, FramingLine
  <2>3. rs \in Seq(Requests) /\ Len(rs) = Len(sent[c]) + 1 /\ \A m \in 1..Len(sent[c]) : rs[m] = sent[c][m]
    BY <1>3
  <2>4. stream[c] # <<>> => s # <<>> /\ s[1] = stream[c][1]
    BY <1>3, FirstOfAppend
  <2>5. /\ sent' = [sent EXCEPT ![c] = rs] /\ stream' = [stream EXCEPT ![c] = s]
        /\ pending' = [pending EXCEPT ![c] = p] /\ gone' = [gone EXCEPT ![c] = gone[c]]
    BY <1>4, <1>5, <2>1
  <2> HIDE DEF rs, s, p
  <2>6. conn[c].at = "data" => conn[c].n \in 1..Len(sent[c]) /\ rs[conn[c].n] = sent[c][conn[c].n]
    <3>1. conn[c].at = "data" => conn[c].n \in DOMAIN sent[c]
      BY <1>3 DEF InBlock
    <3>2. DOMAIN sent[c] = 1..Len(sent[c])
      BY <1>3
    <3> QED
      BY <3>1, <3>2, <2>3
  <2>7. Reading(rs, s, p, conn[c])
    BY <1>3, <2>1, <2>4, <2>6 DEF Reading, TokenOf
  <2>8. InBlock(rs, conn[c])
    <3>1. conn[c].at = "data" => conn[c].n \in DOMAIN rs
      BY <2>3, <2>6, <1>3
    <3> QED
      BY <3>1, <1>3, <2>6 DEF InBlock
  <2>9. BlocksSound'
    <3>1. \A d \in Clients : d # c => pending'[d] = pending[d] /\ gone'[d] = gone[d]
      BY <2>1, <2>5 DEF ConnInv, Types
    <3> QED
      BY <1>1, <1>5, <3>1, SoundKept
  <2>10. gone[c] \in {"no", "fin", "reset"}
    BY <1>1
  <2> QED
    BY <1>1, <1>2, <2>2, <2>3, <2>5, <2>7, <2>8, <2>9, <2>10, ClientStep DEF ClientInv
<1>6. CASE SendMore(c)
  <2> DEFINE s == Append(stream[c], Head(pending[c]))
  <2> DEFINE p == Tail(pending[c])
  <2>1. /\ pending[c] # <<>> /\ sent' = sent /\ gone' = gone
        /\ stream' = [stream EXCEPT ![c] = s] /\ pending' = [pending EXCEPT ![c] = p]
    BY <1>6 DEF SendMore
  <2>2. s \in Seq(Token) /\ p \in Seq(Token) /\ Framing(sent[c], s, p)
    BY <1>3, <2>1, FramingMore
  <2>3. s # <<>> /\ s[1] = IF stream[c] = <<>> THEN pending[c][1] ELSE stream[c][1]
    <3>1. Head(pending[c]) = pending[c][1] /\ Head(pending[c]) \in Token
      BY <1>3, <2>1
    <3> QED
      BY <1>3, <3>1, FirstOfAppend
  <2>4. sent' = [sent EXCEPT ![c] = sent[c]] /\ gone' = [gone EXCEPT ![c] = gone[c]]
    BY <1>4, <2>1
  <2> HIDE DEF s, p
  <2>5. Reading(sent[c], s, p, conn[c])
    BY <1>3, <2>3 DEF Reading
  <2>6. BlocksSound'
    <3>1. \A d \in Clients : d # c => pending'[d] = pending[d] /\ gone'[d] = gone[d]
      BY <2>1 DEF ConnInv, Types
    <3> QED
      BY <1>1, <2>1, <3>1, SoundKept
  <2>7. gone[c] \in {"no", "fin", "reset"}
    BY <1>1
  <2> QED
    BY <1>1, <1>2, <1>3, <2>1, <2>2, <2>4, <2>5, <2>6, <2>7, ClientStep DEF ClientInv
<1>7. CASE Leave(c)
  <2>1. PICK g \in {"fin", "reset"} : gone' = [gone EXCEPT ![c] = g]
    BY <1>7 DEF Leave
  <2>2. sent' = sent /\ stream' = stream /\ pending' = pending
    BY <1>7 DEF Leave
  <2>3. /\ sent' = [sent EXCEPT ![c] = sent[c]] /\ stream' = [stream EXCEPT ![c] = stream[c]]
        /\ pending' = [pending EXCEPT ![c] = pending[c]]
    BY <1>4, <2>2
  <2>4. BlocksSound'
    <3>1. \A d \in Clients : d # c => pending'[d] = pending[d] /\ gone'[d] = gone[d]
      BY <2>1, <2>2 DEF ConnInv, Types
    <3> QED
      BY <1>1, <2>2, <3>1, SoundKept
  <2> QED
    BY <1>1, <1>2, <1>3, <2>1, <2>3, <2>4, ClientStep DEF ClientInv
<1> QED
  <2>1. ASSUME SendLine(c)
        PROVE  \E r \in Requests : \E n :
                /\ n = Len(sent[c]) + 1
                /\ sent' = [sent EXCEPT ![c] = Append(@, r)]
                /\ stream' = [stream EXCEPT ![c] = Append(@, [kind |-> "line", n |-> n, i |-> 0])]
                /\ pending' = [pending EXCEPT ![c] = Tokens(r, n)]
    BY <2>1 DEF SendLine
  <2> QED
    BY <2>1, <1>5, <1>6, <1>7

LEMMA ConnectStep ==
    ASSUME ConnInv, NEW c \in Clients, Connect(c)
    PROVE  ConnInv'
<1> USE DEF clientVars, cacheVars
<1> DEFINE cn == [conn[c] EXCEPT !.at = "backlog"]
<1>1. /\ sent' = sent /\ pending' = pending /\ gone' = gone /\ stream' = stream /\ busy' = busy
      /\ stopped' = stopped /\ cache' = cache /\ due' = due /\ events' = events /\ said' = said
      /\ backlog' = Append(backlog, c) /\ conn[c].at = "out" /\ conn' = [conn EXCEPT ![c] = cn]
  BY DEF Connect
<1>2. /\ sent[c] \in Seq(Requests) /\ stream[c] \in Seq(Token) /\ pending[c] \in Seq(Token)
      /\ Framing(sent[c], stream[c], pending[c]) /\ conn[c] \in ConnState
  BY ClientFacts
<1>3. cn \in ConnState /\ cn.at = "backlog"
  BY <1>2 DEF ConnState
<1> HIDE DEF cn
<1>4. Reading(sent[c], stream[c], pending[c], cn) /\ InBlock(sent[c], cn)
  BY <1>3 DEF Reading, InBlock
<1>5. busy' # c
  BY <1>1 DEF ConnInv, Busy
<1>6. stream' = [stream EXCEPT ![c] = stream[c]]
  BY <1>1 DEF ConnInv, Types
<1>7. /\ backlog' \in Seq(Clients) /\ stopped' \in BOOLEAN /\ due' \in Nat /\ events' \in Nat
      /\ said' \in [Clients -> Seq(Nat)] /\ BlocksSound' /\ cache' \in [Keys -> Seq(Block)]
  <2>1. backlog \in Seq(Clients)
    BY DEF ConnInv, Types
  <2>2. backlog' \in Seq(Clients)
    BY <1>1, <2>1
  <2>3. BlocksSound' /\ cache' \in [Keys -> Seq(Block)]
    BY <1>1, SameBlocks
  <2> QED
    BY <1>1, <2>2, <2>3 DEF ConnInv, Types
<1> QED
  BY <1>1, <1>2, <1>3, <1>4, <1>5, <1>6, <1>7, LoopStep

LEMMA StopStep ==
    ASSUME ConnInv, Stop
    PROVE  ConnInv'
<1> USE DEF clientVars, cacheVars
<1>1. /\ sent' = sent /\ pending' = pending /\ gone' = gone /\ busy' = busy /\ stopped' = TRUE
      /\ cache' = cache /\ due' = due /\ said' = said /\ backlog' = <<>>
      /\ conn' = [c \in Clients |-> IF conn[c].at = "backlog" THEN Refused ELSE conn[c]]
      /\ stream' = [c \in Clients |-> IF conn[c].at = "backlog" THEN <<>> ELSE stream[c]]
  BY DEF Stop
<1>2. events' \in Nat
  BY DEF Stop, Event, ConnInv, Types
<1>3. Types'
  <2>1. conn' \in [Clients -> ConnState]
    BY <1>1, ClientFacts, StatesTyped
  <2>2. stream' \in [Clients -> Seq(Token)]
    <3>1. <<>> \in Seq(Token)
      OBVIOUS
    <3> QED
      BY <3>1, <1>1, ClientFacts
  <2>3. backlog' \in Seq(Clients)
    BY <1>1
  <2> QED
    BY <2>1, <2>2, <2>3, <1>1, <1>2 DEF ConnInv, Types, ConnState
<1>4. ASSUME NEW c \in Clients PROVE Busy(c)'
  BY <1>1 DEF ConnInv, Busy
<1>5. ASSUME NEW c \in Clients
      PROVE  ClientInv(sent'[c], stream'[c], pending'[c], conn'[c])
  <2>1. CASE conn[c].at = "backlog"
    <3>1. stream'[c] = <<>> /\ conn'[c] = Refused /\ sent'[c] = sent[c] /\ pending'[c] = pending[c]
      BY <1>1, <2>1
    <3>2. Framing(sent[c], <<>>, pending[c])
      BY ClientFacts, FramingEmpty
    <3>3. Reading(sent[c], <<>>, pending[c], Refused) /\ InBlock(sent[c], Refused)
      BY StatesTyped DEF Reading, InBlock
    <3> QED
      BY <3>1, <3>2, <3>3 DEF ClientInv
  <2>2. CASE conn[c].at # "backlog"
    <3>1. stream'[c] = stream[c] /\ conn'[c] = conn[c] /\ sent'[c] = sent[c] /\ pending'[c] = pending[c]
      BY <1>1, <2>2
    <3> QED
      BY <3>1 DEF ConnInv
  <2> QED
    BY <2>1, <2>2
<1>6. BlocksSound'
  BY <1>1, SameBlocks
<1> QED
  BY <1>3, <1>4, <1>5, <1>6 DEF ConnInv

LEMMA FlushStep ==
    ASSUME ConnInv, FlushDue
    PROVE  ConnInv'
<1> USE DEF clientVars, serverVars
<1>1. /\ sent' = sent /\ pending' = pending /\ gone' = gone /\ stream' = stream /\ busy' = busy
      /\ stopped' = stopped /\ events' = events /\ said' = said /\ backlog' = backlog /\ conn' = conn
      /\ due > 0 /\ due' = due - 1 /\ cache' = [k \in Keys |-> <<>>]
  BY DEF FlushDue
<1>2. Types'
  <2>1. cache' \in [Keys -> Seq(Block)] /\ due' \in Nat
    <3>1. <<>> \in Seq(Block)
      OBVIOUS
    <3> QED
      BY <3>1, <1>1 DEF ConnInv, Types
  <2> QED
    BY <2>1, <1>1 DEF ConnInv, Types
<1>3. BlocksSound'
  <2>1. Len(<<>>) = 0
    OBVIOUS
  <2> QED
    BY <2>1, <1>1 DEF BlocksSound
<1> QED
  BY <1>1, <1>2, <1>3 DEF ConnInv, Busy

LEMMA ConnInvInit == Init => ConnInv
<1> SUFFICES ASSUME Init PROVE ConnInv
  OBVIOUS
<1>1. <<>> \in Seq(Token) /\ <<>> \in Seq(Requests) /\ <<>> \in Seq(Block) /\ <<>> \in Seq(Nat)
      /\ <<>> \in Seq(Clients) /\ Len(<<>>) = 0
  OBVIOUS
<1>2. Types
  BY <1>1, StatesTyped DEF Init, Types, ConnState
<1>3. ASSUME NEW c \in Clients
      PROVE  Busy(c) /\ ClientInv(sent[c], stream[c], pending[c], conn[c])
  <2>1. sent[c] = <<>> /\ stream[c] = <<>> /\ pending[c] = <<>> /\ conn[c] = Out /\ busy # c
    BY ConnectionAssumption DEF Init
  <2>2. Framing(<<>>, <<>>, <<>>)
    BY <1>1 DEF Framing, Known, Chained
  <2>3. Reading(<<>>, <<>>, <<>>, Out) /\ InBlock(<<>>, Out)
    BY StatesTyped DEF Reading, InBlock
  <2> QED
    BY <2>1, <2>2, <2>3 DEF Busy, ClientInv
<1>4. BlocksSound
  BY <1>1 DEF Init, BlocksSound
<1> QED
  BY <1>2, <1>3, <1>4 DEF ConnInv

LEMMA ConnInvKept == ConnInv /\ [Next]_vars => ConnInv'
<1> SUFFICES ASSUME ConnInv, [Next]_vars PROVE ConnInv'
  OBVIOUS
<1>1. ASSUME NEW c \in Clients, Serve(c) PROVE ConnInv'
  BY <1>1, LineSteps, CommandStep, StorageStep, PieceStep, BlockSteps, OtherLoopSteps DEF Serve
<1>2. ASSUME NEW c \in Clients,
             Connect(c) \/ SendLine(c) \/ SendMore(c) \/ Leave(c) \/ Accept(c)
      PROVE  ConnInv'
  BY <1>2, ConnectStep, SendSteps, OtherLoopSteps
<1>3. CASE UNCHANGED vars
  BY <1>3 DEF vars, clientVars, serverVars, cacheVars, ConnInv, Types, Busy, BlocksSound
<1> QED
  BY <1>1, <1>2, <1>3, FlushStep, StopStep DEF Next

LEMMA ConnInvHolds == Spec => []ConnInv
<1> QED
  BY ConnInvInit, ConnInvKept, PTL DEF Spec

-----------------------------------------------------------------------------
(* Replies *)

(* Is x the last token of a request?                                        *)
Ends(rs, x) == x.kind = "eol" \/ (x.kind = "line" /\ rs[x.n].command \notin Storage)

(* The line of a request comes behind the last token of the one before it,  *)
(* and the last request's tokens are the last ones.                         *)
Numbered(rs, s, p) ==
    /\ \A i \in 1..(Len(s) - 1) :
        Ends(rs, s[i]) => s[i + 1].kind = "line" /\ s[i + 1].n = s[i].n + 1
    /\ s # <<>> => s[Len(s)].n = Len(rs) /\ (Ends(rs, s[Len(s)]) => p = <<>>)
    /\ \A i \in 1..(Len(p) - 1) : p[i].kind # "eol"

WellSent(rs) ==
    \A n \in 1..Len(rs) :
        /\ rs[n].form = "good"
        /\ rs[n].fails \/ rs[n].command = "exception" => ~rs[n].noreply

(* The first d requests have been handled, and the next token is the line   *)
(* of the one behind them.                                                  *)
Between(rs, s, p, g, d) ==
    /\ (s # <<>>) => s[1].kind = "line" /\ s[1].n = d + 1
    /\ (s = <<>>) => d = Len(rs) /\ (p # <<>> => g # "no")

SaidTo(rs, sd, d) ==
    /\ \A i, j \in 1..Len(sd) : i < j => sd[i] < sd[j]
    /\ \A i \in 1..Len(sd) : sd[i] \in 1..d /\ Replies(rs[sd[i]])
    /\ \A n \in 1..d : Replies(rs[n]) => \E i \in 1..Len(sd) : sd[i] = n

Lasts(rs, p, d) == d = Len(rs) => \A i \in 1..Len(p) : p[i].kind = "eol"

Quits(rs) == \E n \in 1..Len(rs) : rs[n].command = "quit"

LoopPaced(rs, s, p, g, cn, d) ==
    /\ cn.at \in {"out", "backlog", "line"} => Between(rs, s, p, g, d)
    /\ cn.at = "data" => cn.n = d + 1
    /\ cn.at = "closed" => g # "no" \/ Quits(rs)

Paced(rs, s, p, g, cn, sd) ==
    WellSent(rs) =>
        \E d \in 0..Len(rs) : SaidTo(rs, sd, d) /\ Lasts(rs, p, d) /\ LoopPaced(rs, s, p, g, cn, d)

(* Each client that waits to be accepted does so once.                      *)
Queue ==
    /\ \A i \in 1..Len(backlog) : conn[backlog[i]].at = "backlog"
    /\ \A i, j \in 1..Len(backlog) : i # j => backlog[i] # backlog[j]

PaceInv ==
    /\ Queue
    /\ \A c \in Clients : Numbered(sent[c], stream[c], pending[c])
    /\ \A c \in Clients : Paced(sent[c], stream[c], pending[c], gone[c], conn[c], said[c])

-----------------------------------------------------------------------------
(* The order of the tokens *)

LEMMA NumberedEmpty ==
    ASSUME NEW rs, NEW s, NEW p, Numbered(rs, s, p)
    PROVE  Numbered(rs, <<>>, p)
BY DEF Numbered

LEMMA NumberedSuffix ==
    ASSUME NEW rs \in Seq(Requests), NEW s \in Seq(Token), NEW p, Numbered(rs, s, p),
           NEW j \in 1..Len(s)
    PROVE  Numbered(rs, SubSeq(s, j + 1, Len(s)), p)
<1> DEFINE u == SubSeq(s, j + 1, Len(s))
<1>1. u \in Seq(Token) /\ Len(u) = Len(s) - j /\ \A i \in 1..Len(u) : u[i] = s[i + j]
  OBVIOUS
<1> HIDE DEF u
<1>2. ASSUME NEW i \in 1..(Len(u) - 1), Ends(rs, u[i])
      PROVE  u[i + 1].kind = "line" /\ u[i + 1].n = u[i].n + 1
  <2>1. i \in 1..Len(u) /\ i + 1 \in 1..Len(u) /\ i + j \in 1..(Len(s) - 1)
    BY <1>1
  <2>2. (i + 1) + j = (i + j) + 1
    BY <2>1
  <2>3. u[i] = s[i + j] /\ u[i + 1] = s[(i + j) + 1]
    BY <2>1, <2>2, <1>1
  <2> QED
    BY <2>1, <2>3, <1>2 DEF Numbered
<1>3. ASSUME u # <<>> PROVE s # <<>> /\ u[Len(u)] = s[Len(s)]
  <2>1. Len(u) \in 1..Len(u) /\ Len(u) + j = Len(s)
    BY <1>1, <1>3
  <2>2. u[Len(u)] = s[Len(u) + j]
    BY <2>1, <1>1
  <2> QED
    BY <2>1, <2>2
<1>4. Numbered(rs, u, p)
  BY <1>2, <1>3 DEF Numbered
<1> QED
  BY <1>4 DEF u

LEMMA NumberedTail ==
    ASSUME NEW rs \in Seq(Requests), NEW s \in Seq(Token), NEW p, Numbered(rs, s, p), s # <<>>
    PROVE  Numbered(rs, Tail(s), p)
<1>1. Tail(s) = SubSeq(s, 1 + 1, Len(s)) /\ 1 \in 1..Len(s)
  OBVIOUS
<1> QED
  BY <1>1, NumberedSuffix

LEMMA NumberedRest ==
    ASSUME NEW rs \in Seq(Requests), NEW s \in Seq(Token), NEW p \in Seq(Token), Numbered(rs, s, p),
           s # <<>>
    PROVE  Numbered(rs, <<[kind |-> "rest", n |-> s[1].n, i |-> 0]>> \o Tail(s), p)
<1>1. PICK x : x = [kind |-> "rest", n |-> s[1].n, i |-> 0]
  OBVIOUS
<1>2. x \in Token /\ x.kind = "rest" /\ x.n = s[1].n
  <2>1. s[1] \in Token
    OBVIOUS
  <2> QED
    BY <1>1, <2>1 DEF Token
<1>3. PICK u : u = <<x>> \o Tail(s)
  OBVIOUS
<1>4. u \in Seq(Token) /\ Len(u) = Len(s) /\ u[1] = x /\ \A i \in 2..Len(u) : u[i] = s[i]
  BY <1>2, <1>3
<1>5. ~Ends(rs, x)
  BY <1>2 DEF Ends
<1>6. ASSUME NEW i \in 1..(Len(u) - 1), Ends(rs, u[i])
      PROVE  u[i + 1].kind = "line" /\ u[i + 1].n = u[i].n + 1
  <2>1. i # 1
    BY <1>4, <1>5, <1>6
  <2>2. u[i] = s[i] /\ u[i + 1] = s[i + 1] /\ i \in 1..(Len(s) - 1)
    BY <2>1, <1>4
  <2> QED
    BY <2>2, <1>6 DEF Numbered
<1>7. u[Len(u)].n = s[Len(s)].n /\ (Ends(rs, u[Len(u)]) => u[Len(u)] = s[Len(s)])
  <2>1. CASE Len(u) = 1
    BY <2>1, <1>2, <1>4, <1>5
  <2>2. CASE Len(u) # 1
    <3>1. Len(u) \in 2..Len(u)
      BY <2>2, <1>4
    <3> QED
      BY <3>1, <1>4
  <2> QED
    BY <2>1, <2>2
<1>8. Numbered(rs, u, p)
  BY <1>6, <1>7 DEF Numbered
<1> QED
  BY <1>1, <1>3, <1>8

LEMMA NumberedMore ==
    ASSUME NEW rs \in Seq(Requests), NEW s \in Seq(Token), NEW p \in Seq(Token),
           Framing(rs, s, p), Numbered(rs, s, p), p # <<>>
    PROVE  Numbered(rs, Append(s, Head(p)), Tail(p))
<1>1. PICK u : u = Append(s, Head(p))
  OBVIOUS
<1>2. PICK q : q = Tail(p)
  OBVIOUS
<1>3. /\ u \in Seq(Token) /\ Len(u) = Len(s) + 1 /\ u[Len(u)] = p[1]
      /\ \A i \in 1..Len(s) : u[i] = s[i]
  BY <1>1
<1>4. q \in Seq(Token) /\ Len(q) = Len(p) - 1 /\ \A i \in 1..Len(q) : q[i] = p[i + 1]
  BY <1>2
<1>5. ASSUME NEW i \in 1..(Len(u) - 1), Ends(rs, u[i])
      PROVE  u[i + 1].kind = "line" /\ u[i + 1].n = u[i].n + 1
  <2>1. i \in 1..Len(s) /\ u[i] = s[i]
    BY <1>3
  <2>2. i # Len(s)
    BY <2>1, <1>5 DEF Numbered
  <2>3. i \in 1..(Len(s) - 1) /\ i + 1 \in 1..Len(s)
    BY <2>1, <2>2
  <2>4. u[i + 1] = s[i + 1]
    BY <2>3, <1>3
  <2> QED
    BY <2>1, <2>3, <2>4, <1>5 DEF Numbered
<1>6. 1 \in 1..Len(p) /\ p[1].n = Len(rs) /\ p[1].kind # "line"
  <2>1. 1 \in 1..Len(p)
    OBVIOUS
  <2> QED
    BY <2>1 DEF Framing
<1>7. Ends(rs, p[1]) => q = <<>>
  <2>1. SUFFICES ASSUME p[1].kind = "eol" PROVE q = <<>>
    BY <1>6 DEF Ends
  <2>2. 1 \notin 1..(Len(p) - 1)
    BY <2>1 DEF Numbered
  <2> QED
    BY <2>2, <1>4, <1>6
<1>8. ASSUME NEW i \in 1..(Len(q) - 1) PROVE q[i].kind # "eol"
  <2>1. q[i] = p[i + 1] /\ i + 1 \in 1..(Len(p) - 1)
    BY <1>4
  <2> QED
    BY <2>1 DEF Numbered
<1>9. Numbered(rs, u, q)
  BY <1>3, <1>5, <1>6, <1>7, <1>8 DEF Numbered
<1> QED
  BY <1>1, <1>2, <1>9

LEMMA TokensLast ==
    ASSUME NEW r \in Requests, NEW n \in Nat
    PROVE  /\ r.command \notin Storage => Tokens(r, n) = <<>>
           /\ \A i \in 1..(Len(Tokens(r, n)) - 1) : Tokens(r, n)[i].kind # "eol"
<1>1. r.size \in Nat
  BY ConnectionAssumption DEF Request
<1>2. CASE r.command \notin Storage
  <2>1. Tokens(r, n) = <<>>
    BY <1>2 DEF Tokens
  <2> QED
    BY <1>2, <2>1
<1>3. CASE r.command \in Storage
  <2>1. Tokens(r, n) = [i \in 1..(r.size + 1) |->
                            [kind |-> IF i > r.size THEN "eol" ELSE "piece", n |-> n, i |-> i]]
    BY <1>3 DEF Tokens
  <2>2. Len(Tokens(r, n)) = r.size + 1
    BY <2>1, <1>1
  <2> QED
    BY <1>1, <1>3, <2>1, <2>2
<1> QED
  BY <1>2, <1>3

LEMMA NumberedLine ==
    ASSUME NEW rs \in Seq(Requests), NEW s \in Seq(Token), Framing(rs, s, <<>>),
           Numbered(rs, s, <<>>), NEW r \in Requests, NEW n \in Nat, n = Len(rs) + 1
    PROVE  Numbered(Append(rs, r), Append(s, [kind |-> "line", n |-> n, i |-> 0]), Tokens(r, n))
<1>1. PICK ss : ss = Append(rs, r)
  OBVIOUS
<1>2. PICK x : x = [kind |-> "line", n |-> n, i |-> 0]
  OBVIOUS
<1>3. PICK u : u = Append(s, x)
  OBVIOUS
<1>4. Len(ss) = n /\ ss[n] = r /\ \A i \in 1..Len(rs) : ss[i] = rs[i]
  BY <1>1
<1>5. x \in Token /\ x.kind = "line" /\ x.n = n
  BY <1>2 DEF Token
<1>6. u \in Seq(Token) /\ Len(u) = Len(s) + 1 /\ u[Len(u)] = x /\ \A i \in 1..Len(s) : u[i] = s[i]
  BY <1>3, <1>5
<1>7. \A i \in 1..Len(s) : s[i].n \in 1..Len(rs) /\ ss[s[i].n] = rs[s[i].n]
  BY <1>4 DEF Framing, Known
<1>8. ASSUME NEW i \in 1..(Len(u) - 1), Ends(ss, u[i])
      PROVE  u[i + 1].kind = "line" /\ u[i + 1].n = u[i].n + 1
  <2>1. i \in 1..Len(s) /\ u[i] = s[i] /\ Ends(rs, s[i])
    <3>1. i \in 1..Len(s) /\ u[i] = s[i]
      BY <1>6
    <3> QED
      BY <3>1, <1>7, <1>8 DEF Ends
  <2>2. CASE i = Len(s)
    <3>1. s[i].n = Len(rs) /\ u[i + 1] = x
      BY <2>1, <2>2, <1>6 DEF Numbered
    <3> QED
      BY <3>1, <2>1, <1>5
  <2>3. CASE i # Len(s)
    <3>1. i \in 1..(Len(s) - 1) /\ i + 1 \in 1..Len(s)
      BY <2>1, <2>3
    <3>2. u[i + 1] = s[i + 1]
      BY <3>1, <1>6
    <3> QED
      BY <2>1, <3>1, <3>2 DEF Numbered
  <2> QED
    BY <2>2, <2>3
<1>9. Ends(ss, x) => Tokens(r, n) = <<>>
  BY <1>4, <1>5, TokensLast DEF Ends
<1>10. Numbered(ss, u, Tokens(r, n))
  BY <1>4, <1>5, <1>6, <1>8, <1>9, TokensLast DEF Numbered
<1> QED
  BY <1>1, <1>2, <1>3, <1>10

(* Behind the last token of a request. *)
LEMMA NextRequest ==
    ASSUME NEW rs \in Seq(Requests), NEW s \in Seq(Token), NEW p \in Seq(Token), NEW g,
           Framing(rs, s, p), Numbered(rs, s, p), s # <<>>, Ends(rs, s[1])
    PROVE  Between(rs, Tail(s), p, g, s[1].n) /\ Lasts(rs, p, s[1].n)
<1>1. PICK u : u = Tail(s)
  OBVIOUS
<1>2. u \in Seq(Token) /\ Len(u) = Len(s) - 1 /\ Len(s) \in Nat /\ Len(s) > 0
  BY <1>1
<1>3. CASE Len(s) = 1
  <2>1. u = <<>> /\ s[1].n = Len(rs) /\ p = <<>>
    BY <1>2, <1>3 DEF Numbered
  <2> QED
    BY <2>1, <1>1 DEF Between, Lasts
<1>4. CASE Len(s) # 1
  <2>1. u # <<>> /\ u[1] = s[2] /\ 1 \in 1..(Len(s) - 1) /\ 2 \in 1..Len(s)
    <3>1. 1 \in 1..(Len(s) - 1) /\ 2 \in 1..Len(s) /\ Len(u) # 0
      BY <1>2, <1>4
    <3>2. u[1] = s[2]
      BY <1>1, <1>2, <3>1
    <3> QED
      BY <3>1, <3>2
  <2>2. s[2].kind = "line" /\ s[2].n = s[1].n + 1
    <3>1. s[1 + 1].kind = "line" /\ s[1 + 1].n = s[1].n + 1
      BY <2>1 DEF Numbered
    <3> QED
      BY <3>1
  <2>3. s[1].n \in 1..Len(rs) /\ s[2].n \in 1..Len(rs)
    BY <2>1 DEF Framing, Known
  <2>4. s[1].n # Len(rs)
    BY <2>2, <2>3
  <2> QED
    BY <2>1, <2>2, <2>4, <1>1 DEF Between, Lasts
<1> QED
  BY <1>3, <1>4

-----------------------------------------------------------------------------
(* Handled requests *)

LEMMA SaidNext ==
    ASSUME NEW rs \in Seq(Requests), NEW sd \in Seq(Nat), NEW d \in 0..Len(rs), SaidTo(rs, sd, d),
           d < Len(rs)
    PROVE  SaidTo(rs, IF Replies(rs[d + 1]) THEN Append(sd, d + 1) ELSE sd, d + 1)
<1>1. CASE ~Replies(rs[d + 1])
  <2>1. \A i \in 1..Len(sd) : sd[i] \in 1..(d + 1)
    BY DEF SaidTo
  <2>2. \A n \in 1..(d + 1) : n \in 1..d \/ n = d + 1
    OBVIOUS
  <2> QED
    BY <1>1, <2>1, <2>2 DEF SaidTo
<1>2. CASE Replies(rs[d + 1])
  <2>1. PICK u : u = Append(sd, d + 1)
    OBVIOUS
  <2>2. Len(u) = Len(sd) + 1 /\ u[Len(u)] = d + 1 /\ \A i \in 1..Len(sd) : u[i] = sd[i]
    BY <2>1
  <2>3. Len(sd) \in Nat /\ \A i \in 1..Len(u) : i \in 1..Len(sd) \/ i = Len(u)
    BY <2>2
  <2>4. \A i \in 1..Len(sd) : sd[i] \in 1..d /\ Replies(rs[sd[i]])
    BY DEF SaidTo
  <2>5. \A i \in 1..Len(u) : u[i] \in 1..(d + 1) /\ Replies(rs[u[i]])
    <3>1. ASSUME NEW i \in 1..Len(u) PROVE u[i] \in 1..(d + 1) /\ Replies(rs[u[i]])
      <4>1. CASE i \in 1..Len(sd)
        BY <4>1, <2>2, <2>4
      <4>2. CASE i = Len(u)
        BY <4>2, <2>2, <1>2
      <4> QED
        BY <4>1, <4>2, <2>3
    <3> QED
      BY <3>1
  <2>6. ASSUME NEW i \in 1..Len(u), NEW j \in 1..Len(u), i < j PROVE u[i] < u[j]
    <3>1. i \in 1..Len(sd) /\ u[i] = sd[i] /\ sd[i] \in 1..d
      BY <2>2, <2>3, <2>4, <2>6
    <3>2. CASE j \in 1..Len(sd)
      BY <3>1, <3>2, <2>2, <2>6 DEF SaidTo
    <3>3. CASE j = Len(u)
      BY <3>1, <3>3, <2>2
    <3> QED
      BY <3>2, <3>3, <2>3
  <2>7. ASSUME NEW n \in 1..(d + 1), Replies(rs[n]) PROVE \E i \in 1..Len(u) : u[i] = n
    <3>1. CASE n = d + 1
      BY <3>1, <2>2, <2>3
    <3>2. CASE n # d + 1
      <4>1. n \in 1..d
        BY <3>2
      <4>2. PICK i \in 1..Len(sd) : sd[i] = n
        BY <4>1, <2>7 DEF SaidTo
      <4>3. i \in 1..Len(u) /\ u[i] = n
        BY <4>2, <2>2
      <4> QED
        BY <4>3
    <3> QED
      BY <3>1, <3>2
  <2>8. SaidTo(rs, u, d + 1)
    BY <2>5, <2>6, <2>7 DEF SaidTo
  <2> QED
    BY <1>2, <2>1, <2>8
<1> QED
  BY <1>1, <1>2

(* The requests before one that is begun stay what they are.                *)
LEMMA PacedLine ==
    ASSUME NEW rs \in Seq(Requests), NEW s \in Seq(Token), NEW g, NEW cn, NEW sd \in Seq(Nat),
           NEW r \in Requests, NEW n \in Nat, n = Len(rs) + 1, NEW p,
           cn.at # "out", cn.at # "closed", Paced(rs, s, <<>>, g, cn, sd)
    PROVE  Paced(Append(rs, r), Append(s, [kind |-> "line", n |-> n, i |-> 0]), p, g, cn, sd)
<1>1. PICK ss : ss = Append(rs, r)
  OBVIOUS
<1>2. PICK x : x = [kind |-> "line", n |-> n, i |-> 0]
  OBVIOUS
<1>3. PICK u : u = Append(s, x)
  OBVIOUS
<1>4. Len(rs) \in Nat /\ Len(ss) = n /\ \A i \in 1..Len(rs) : ss[i] = rs[i]
  BY <1>1
<1>5. x \in Token /\ x.kind = "line" /\ x.n = n
  BY <1>2 DEF Token
<1>6. u # <<>> /\ u[1] = IF s = <<>> THEN x ELSE s[1]
  BY <1>3, FirstOfAppend
<1> SUFFICES ASSUME WellSent(ss)
             PROVE  \E d \in 0..Len(ss) : SaidTo(ss, sd, d) /\ Lasts(ss, p, d)
                        /\ LoopPaced(ss, u, p, g, cn, d)
  BY <1>1, <1>2, <1>3 DEF Paced
<1>7. WellSent(rs)
  <2>1. \A i \in 1..Len(rs) : i \in 1..Len(ss) /\ ss[i] = rs[i]
    BY <1>4
  <2> QED
    BY <2>1 DEF WellSent
<1>8. PICK d \in 0..Len(rs) : SaidTo(rs, sd, d) /\ LoopPaced(rs, s, <<>>, g, cn, d)
  BY <1>7 DEF Paced
<1>9. d \in 0..Len(ss) /\ d # Len(ss)
  BY <1>4
<1>10. SaidTo(ss, sd, d)
  <2>1. \A i \in 1..d : ss[i] = rs[i]
    BY <1>4
  <2> QED
    BY <2>1, <1>8 DEF SaidTo
<1>11. Lasts(ss, p, d)
  BY <1>9 DEF Lasts
<1>12. LoopPaced(ss, u, p, g, cn, d)
  BY <1>4, <1>5, <1>6, <1>8 DEF LoopPaced, Between
<1> QED
  BY <1>9, <1>10, <1>11, <1>12

LEMMA PacedMore ==
    ASSUME NEW rs \in Seq(Requests), NEW s \in Seq(Token), NEW p \in Seq(Token), NEW cn, NEW sd,
           p # <<>>, cn.at # "out", Paced(rs, s, p, "no", cn, sd)
    PROVE  Paced(rs, Append(s, Head(p)), Tail(p), "no", cn, sd)
<1>1. PICK u : u = Append(s, Head(p))
  OBVIOUS
<1>2. PICK q : q = Tail(p)
  OBVIOUS
<1>3. u # <<>> /\ (s # <<>> => u[1] = s[1])
  <2>1. Head(p) \in Token
    OBVIOUS
  <2> QED
    BY <1>1, <2>1, FirstOfAppend
<1>4. \A i \in 1..Len(q) : q[i] = p[i + 1] /\ i + 1 \in 1..Len(p)
  BY <1>2
<1> SUFFICES ASSUME WellSent(rs)
             PROVE  \E d \in 0..Len(rs) : SaidTo(rs, sd, d) /\ Lasts(rs, q, d)
                        /\ LoopPaced(rs, u, q, "no", cn, d)
  BY <1>1, <1>2 DEF Paced
<1>5. PICK d \in 0..Len(rs) :
            SaidTo(rs, sd, d) /\ Lasts(rs, p, d) /\ LoopPaced(rs, s, p, "no", cn, d)
  BY DEF Paced
<1>6. Lasts(rs, q, d)
  BY <1>4, <1>5 DEF Lasts
<1>7. LoopPaced(rs, u, q, "no", cn, d)
  BY <1>3, <1>5 DEF LoopPaced, Between
<1> QED
  BY <1>5, <1>6, <1>7

LEMMA PacedLeft ==
    ASSUME NEW rs, NEW s, NEW p, NEW cn, NEW sd, NEW g, g # "no", Paced(rs, s, p, "no", cn, sd)
    PROVE  Paced(rs, s, p, g, cn, sd)
BY DEF Paced, LoopPaced, Between

(* A loop of a client that left ends. *)
LEMMA PacedClosed ==
    ASSUME NEW rs, NEW s, NEW p, NEW cn, NEW sd, NEW g, g # "no", Paced(rs, s, p, g, cn, sd)
    PROVE  Paced(rs, <<>>, p, g, Closed, sd)
BY StatesTyped DEF Paced, LoopPaced

(* Request d + 1 is handled: its tokens but the last one, x, are read.      *)
LEMMA PacedHandled ==
    ASSUME NEW rs \in Seq(Requests), NEW u, NEW p, NEW g, NEW sd \in Seq(Nat), NEW n \in 1..Len(rs),
           NEW cn, NEW d \in 0..Len(rs), n = d + 1, SaidTo(rs, sd, d), Lasts(rs, p, n),
           \/ cn = Waiting /\ Between(rs, u, p, g, n)
           \/ cn = Closed /\ rs[n].command = "quit"
    PROVE  Paced(rs, u, p, g, cn, IF Replies(rs[n]) THEN Append(sd, n) ELSE sd)
<1>1. d < Len(rs) /\ n \in 0..Len(rs)
  OBVIOUS
<1>2. SaidTo(rs, IF Replies(rs[n]) THEN Append(sd, n) ELSE sd, n)
  BY <1>1, SaidNext
<1>3. LoopPaced(rs, u, p, g, cn, n)
  BY StatesTyped DEF LoopPaced, Quits
<1> QED
  BY <1>1, <1>2, <1>3 DEF Paced

-----------------------------------------------------------------------------
(* Every action keeps the order *)

Others(c) ==
    \A d \in Clients \ {c} :
        /\ sent'[d] = sent[d] /\ stream'[d] = stream[d] /\ pending'[d] = pending[d]
        /\ gone'[d] = gone[d] /\ conn'[d] = conn[d] /\ said'[d] = said[d]

LEMMA PaceStep ==
    ASSUME PaceInv, NEW c \in Clients, Others(c), Queue',
           Numbered(sent'[c], stream'[c], pending'[c]),
           Paced(sent'[c], stream'[c], pending'[c], gone'[c], conn'[c], said'[c])
    PROVE  PaceInv'
<1>1. ASSUME NEW d \in Clients, d # c
      PROVE  /\ Numbered(sent'[d], stream'[d], pending'[d])
             /\ Paced(sent'[d], stream'[d], pending'[d], gone'[d], conn'[d], said'[d])
  <2>1. /\ sent'[d] = sent[d] /\ stream'[d] = stream[d] /\ pending'[d] = pending[d]
        /\ gone'[d] = gone[d] /\ conn'[d] = conn[d] /\ said'[d] = said[d]
    BY <1>1 DEF Others
  <2> QED
    BY <2>1 DEF PaceInv
<1> QED
  BY <1>1 DEF PaceInv

LEMMA OthersStay ==
    ASSUME ConnInv, NEW c \in Clients,
           \/ Connect(c) \/ SendLine(c) \/ SendMore(c) \/ Leave(c) \/ Accept(c) \/ Serve(c)
    PROVE  Others(c)
<1> USE DEF clientVars, serverVars, cacheVars
<1> SUFFICES ASSUME NEW d \in Clients, d # c
             PROVE  /\ sent'[d] = sent[d] /\ stream'[d] = stream[d] /\ pending'[d] = pending[d]
                    /\ gone'[d] = gone[d] /\ conn'[d] = conn[d] /\ said'[d] = said[d]
  BY DEF Others
<1>1. /\ DOMAIN sent = Clients /\ DOMAIN stream = Clients /\ DOMAIN pending = Clients
      /\ DOMAIN gone = Clients /\ DOMAIN conn = Clients /\ DOMAIN said = Clients
  BY DEF ConnInv, Types
<1>2. CASE Connect(c)
  BY <1>1, <1>2 DEF Connect
<1>3. CASE SendLine(c)
  BY <1>1, <1>3 DEF SendLine
<1>4. CASE SendMore(c)
  BY <1>1, <1>4 DEF SendMore
<1>5. CASE Leave(c)
  BY <1>1, <1>5 DEF Leave
<1>6. CASE Accept(c)
  BY <1>1, <1>6 DEF Accept
<1>7. CASE ReadTooLong(c)
  BY <1>1, <1>7 DEF ReadTooLong, Consume, Continue
<1>8. CASE ReadBlank(c)
  BY <1>1, <1>8 DEF ReadBlank, Close
<1>9. CASE ReadMalformed(c)
  BY <1>1, <1>9 DEF ReadMalformed, Consume, Continue
<1>10. CASE ReadStray(c)
  BY <1>1, <1>10 DEF ReadStray, Consume, Continue
<1>11. CASE ReadStorage(c)
  BY <1>1, <1>11 DEF ReadStorage, Consume
<1>12. CASE ReadCommand(c)
  BY <1>1, <1>12 DEF ReadCommand, Consume, Continue, Close, Says
<1>13. CASE ReadPiece(c)
  BY <1>1, <1>13 DEF ReadPiece, Consume
<1>14. CASE Yield(c)
  BY <1>14 DEF Yield
<1>15. CASE HandleBlock(c)
  BY <1>1, <1>15 DEF HandleBlock, Consume, Continue, Says
<1>16. CASE BlockEnds(c)
  BY <1>1, <1>16 DEF BlockEnds, Close
<1>17. CASE LineEnds(c)
  BY <1>1, <1>17 DEF LineEnds, Close
<1>18. CASE ReadFails(c)
  BY <1>1, <1>18 DEF ReadFails, Close
<1> QED
  BY <1>2, <1>3, <1>4, <1>5, <1>6, <1>7, <1>8, <1>9, <1>10, <1>11, <1>12, <1>13, <1>14, <1>15,
     <1>16, <1>17, <1>18 DEF Serve

(* Accepting is from the backlog's front, and nothing else touches it.      *)
LEMMA QueueKept ==
    ASSUME ConnInv, Queue, NEW c \in Clients, Others(c),
           \/ Connect(c) \/ SendLine(c) \/ SendMore(c) \/ Leave(c) \/ Accept(c) \/ Serve(c)
    PROVE  Queue'
<1> USE DEF clientVars, serverVars, cacheVars
<1>1. backlog \in Seq(Clients) /\ \A i \in 1..Len(backlog) : backlog[i] \in Clients
  BY DEF ConnInv, Types
<1>2. CASE backlog' = backlog /\ conn' = conn
  BY <1>2 DEF Queue
<1>3. CASE backlog' = backlog /\ conn[c].at # "backlog"
  <2>1. \A i \in 1..Len(backlog) : backlog[i] # c /\ conn'[backlog[i]] = conn[backlog[i]]
    BY <1>1, <1>3 DEF Queue, Others
  <2> QED
    BY <2>1, <1>3 DEF Queue
<1>4. CASE Connect(c)
  <2>1. conn[c].at = "out" /\ conn'[c].at = "backlog" /\ backlog' = Append(backlog, c)
    <3>1. conn[c] \in ConnState /\ DOMAIN conn = Clients
      BY ClientFacts DEF ConnInv, Types
    <3> QED
      BY <1>4, <3>1 DEF Connect, ConnState
  <2>2. \A i \in 1..Len(backlog) : backlog[i] # c /\ conn'[backlog[i]] = conn[backlog[i]]
    BY <1>1, <2>1 DEF Queue, Others
  <2>3. /\ Len(backlog') = Len(backlog) + 1 /\ backlog'[Len(backlog) + 1] = c
        /\ \A i \in 1..Len(backlog) : backlog'[i] = backlog[i]
    BY <1>1, <2>1
  <2>4. \A i \in 1..Len(backlog') : i \in 1..Len(backlog) \/ i = Len(backlog) + 1
    BY <1>1, <2>3
  <2>5. \A i \in 1..Len(backlog') : conn'[backlog'[i]].at = "backlog"
    BY <2>1, <2>2, <2>3, <2>4 DEF Queue
  <2>6. \A i, j \in 1..Len(backlog') : i # j => backlog'[i] # backlog'[j]
    BY <2>1, <2>2, <2>3, <2>4 DEF Queue
  <2> QED
    BY <2>5, <2>6 DEF Queue
<1>5. CASE Accept(c)
  <2>1. backlog # <<>> /\ c = backlog[1] /\ backlog' = Tail(backlog) /\ 1 \in 1..Len(backlog)
    BY <1>1, <1>5 DEF Accept
  <2>2. \A i \in 1..Len(backlog') : backlog'[i] = backlog[i + 1] /\ i + 1 \in 1..Len(backlog)
    BY <1>1, <2>1
  <2>3. \A i \in 1..Len(backlog') : backlog'[i] # c
    <3>1. \A i \in 1..Len(backlog') : i + 1 # 1
      OBVIOUS
    <3> QED
      BY <2>1, <2>2, <3>1 DEF Queue
  <2>4. \A i \in 1..Len(backlog') : conn'[backlog'[i]] = conn[backlog[i + 1]]
    BY <1>1, <2>2, <2>3 DEF Others
  <2>5. \A i \in 1..Len(backlog') : conn'[backlog'[i]].at = "backlog"
    BY <2>2, <2>4 DEF Queue
  <2>6. \A i, j \in 1..Len(backlog') : i # j => backlog'[i] # backlog'[j]
    <3>1. \A i, j \in 1..Len(backlog') : i # j => i + 1 # j + 1
      OBVIOUS
    <3> QED
      BY <2>2, <3>1 DEF Queue
  <2> QED
    BY <2>5, <2>6 DEF Queue
<1>6. CASE SendLine(c) \/ SendMore(c) \/ Leave(c)
  <2>1. backlog' = backlog /\ conn' = conn
    BY <1>6 DEF SendLine, SendMore, Leave
  <2> QED
    BY <2>1, <1>2
<1>7. CASE Serve(c)
  <2>1. backlog' = backlog
    BY <1>7 DEF Serve, ReadTooLong, ReadBlank, ReadMalformed, ReadStray, ReadStorage, ReadCommand,
                ReadPiece, Yield, HandleBlock, BlockEnds, LineEnds, ReadFails
  <2>2. conn[c].at \in {"line", "data"}
    BY <1>7 DEF Serve, ReadTooLong, ReadBlank, ReadMalformed, ReadStray, ReadStorage, ReadCommand,
                ReadPiece, Yield, HandleBlock, BlockEnds, LineEnds, ReadFails, NextLine, AtLine
  <2> QED
    BY <2>1, <2>2, <1>3
<1> QED
  BY <1>4, <1>5, <1>6, <1>7

LEMMA PaceFacts ==
    ASSUME ConnInv, PaceInv, NEW c \in Clients
    PROVE  /\ Numbered(sent[c], stream[c], pending[c])
           /\ Paced(sent[c], stream[c], pending[c], gone[c], conn[c], said[c])
           /\ said[c] \in Seq(Nat)
           /\ DOMAIN sent = Clients /\ DOMAIN stream = Clients /\ DOMAIN pending = Clients
           /\ DOMAIN gone = Clients /\ DOMAIN conn = Clients /\ DOMAIN said = Clients
BY DEF ConnInv, Types, PaceInv

(* A loop between two requests of a client whose requests are well formed   *)
(* finds the line of the next one.                                          *)
LEMMA LineNext ==
    ASSUME ConnInv, PaceInv, NEW c \in Clients, AtLine(c), stream[c] # <<>>, WellSent(sent[c])
    PROVE  /\ Head(stream[c]).kind = "line" /\ Line(c).form = "good"
           /\ \E d \in 0..Len(sent[c]) : SaidTo(sent[c], said[c], d) /\ Head(stream[c]).n = d + 1
<1>1. PICK d \in 0..Len(sent[c]) : SaidTo(sent[c], said[c], d)
            /\ LoopPaced(sent[c], stream[c], pending[c], gone[c], conn[c], d)
  BY PaceFacts DEF Paced
<1>2. Head(stream[c]) = stream[c][1] /\ Head(stream[c]).n \in 1..Len(sent[c])
  BY HeadFacts
<1>3. stream[c][1].kind = "line" /\ stream[c][1].n = d + 1
  BY <1>1 DEF LoopPaced, Between, AtLine
<1> QED
  BY <1>1, <1>2, <1>3 DEF WellSent, Line

LEMMA LinePace ==
    ASSUME ConnInv, PaceInv, NEW c \in Clients,
           ReadTooLong(c) \/ ReadBlank(c) \/ ReadMalformed(c) \/ ReadStray(c)
    PROVE  PaceInv'
<1> USE DEF clientVars, serverVars, cacheVars
<1>1. Others(c) /\ Queue'
  BY OthersStay, QueueKept DEF PaceInv, Serve
<1>2. sent' = sent /\ pending' = pending /\ stream[c] # <<>> /\ AtLine(c)
  BY DEF ReadTooLong, ReadBlank, ReadMalformed, ReadStray, NextLine
<1>3. ~WellSent(sent[c])
  <2>1. SUFFICES ASSUME WellSent(sent[c]) PROVE FALSE
    OBVIOUS
  <2>2. Head(stream[c]).kind = "line" /\ Line(c).form = "good"
    BY <1>2, <2>1, LineNext
  <2> QED
    BY <2>2 DEF ReadTooLong, ReadBlank, ReadMalformed, ReadStray, NextLine
<1>4. Paced(sent'[c], stream'[c], pending'[c], gone'[c], conn'[c], said'[c])
  BY <1>2, <1>3 DEF Paced
<1>5. /\ sent[c] \in Seq(Requests) /\ stream[c] \in Seq(Token) /\ pending[c] \in Seq(Token)
      /\ Numbered(sent[c], stream[c], pending[c]) /\ DOMAIN stream = Clients
  BY ClientFacts, PaceFacts
<1>6. Numbered(sent[c], stream'[c], pending[c])
  <2>1. CASE ReadTooLong(c)
    <3>1. stream'[c] = <<[kind |-> "rest", n |-> stream[c][1].n, i |-> 0]>> \o Tail(stream[c])
      <4>1. Head(stream[c]) = stream[c][1]
        BY <1>2, HeadFacts
      <4> QED
        BY <2>1, <1>5, <4>1 DEF ReadTooLong, Consume
    <3> QED
      BY <3>1, <1>2, <1>5, NumberedRest
  <2>2. CASE ReadBlank(c)
    <3>1. stream'[c] = <<>>
      BY <2>2, <1>5 DEF ReadBlank, Close
    <3> QED
      BY <3>1, <1>5, NumberedEmpty
  <2>3. CASE ReadMalformed(c)
    <3>1. stream'[c] = Tail(stream[c])
      BY <2>3, <1>5 DEF ReadMalformed, Consume
    <3> QED
      BY <3>1, <1>2, <1>5, NumberedTail
  <2>4. CASE ReadStray(c)
    <3>1. stream'[c] = SubSeq(stream[c], StrayLine(c) + 1, Len(stream[c])) /\ StrayLine(c) # 0
      BY <2>4, <1>5 DEF ReadStray, Consume
    <3>2. StrayLine(c) \in 1..Len(stream[c])
      BY <3>1, <1>2, <1>5, StrayInside
    <3> QED
      BY <3>1, <3>2, <1>5, NumberedSuffix
  <2> QED
    BY <2>1, <2>2, <2>3, <2>4
<1> QED
  BY <1>1, <1>2, <1>4, <1>6, PaceStep

LEMMA ReadPace ==
    ASSUME ConnInv, PaceInv, NEW c \in Clients, ReadStorage(c) \/ ReadPiece(c)
    PROVE  PaceInv'
<1> USE DEF clientVars, serverVars, cacheVars
<1>1. Others(c) /\ Queue'
  BY OthersStay, QueueKept DEF PaceInv, Serve
<1>2. /\ sent' = sent /\ pending' = pending /\ gone' = gone /\ said' = said /\ stream[c] # <<>>
      /\ stream'[c] = Tail(stream[c])
  BY PaceFacts DEF ReadStorage, ReadPiece, NextLine, Consume
<1>3. Numbered(sent[c], stream'[c], pending[c])
  BY <1>2, ClientFacts, PaceFacts, NumberedTail
<1>4. ASSUME WellSent(sent[c])
      PROVE  \E d \in 0..Len(sent[c]) : SaidTo(sent[c], said[c], d)
                /\ Lasts(sent[c], pending[c], d)
                /\ LoopPaced(sent[c], stream'[c], pending[c], gone[c], conn'[c], d)
  <2>1. PICK d \in 0..Len(sent[c]) : SaidTo(sent[c], said[c], d) /\ Lasts(sent[c], pending[c], d)
                /\ LoopPaced(sent[c], stream[c], pending[c], gone[c], conn[c], d)
    BY <1>4, PaceFacts DEF Paced
  <2>2. conn'[c].at = "data" /\ conn'[c].n = d + 1
    <3>1. CASE ReadStorage(c)
      <4>1. AtLine(c) /\ Head(stream[c]) = stream[c][1]
        BY <3>1, <1>2, HeadFacts DEF ReadStorage, NextLine
      <4>2. stream[c][1].n = d + 1
        BY <4>1, <1>2, <2>1 DEF LoopPaced, Between, AtLine
      <4>3. conn'[c] = [at |-> "data", n |-> Head(stream[c]).n, data |-> <<>>]
        BY <3>1, PaceFacts DEF ReadStorage
      <4> QED
        BY <4>1, <4>2, <4>3
    <3>2. CASE ReadPiece(c)
      <4>1. conn[c].at = "data" /\ conn[c] \in ConnState
        BY <3>2, ClientFacts DEF ReadPiece
      <4>2. conn[c].n = d + 1
        BY <4>1, <2>1 DEF LoopPaced
      <4>3. conn'[c] = [conn[c] EXCEPT !.data = Append(@, Head(stream[c]).i)]
        BY <3>2, PaceFacts DEF ReadPiece
      <4> QED
        BY <4>1, <4>2, <4>3 DEF ConnState
    <3> QED
      BY <3>1, <3>2
  <2>3. LoopPaced(sent[c], stream'[c], pending[c], gone[c], conn'[c], d)
    BY <2>2 DEF LoopPaced
  <2> QED
    BY <2>1, <2>3
<1>5. Paced(sent'[c], stream'[c], pending'[c], gone'[c], conn'[c], said'[c])
  BY <1>2, <1>4 DEF Paced
<1> QED
  BY <1>1, <1>2, <1>3, <1>5, PaceStep

LEMMA CommandPace ==
    ASSUME ConnInv, PaceInv, NEW c \in Clients, ReadCommand(c)
    PROVE  PaceInv'
<1> USE DEF clientVars, serverVars
<1>1. Others(c) /\ Queue'
  BY OthersStay, QueueKept DEF PaceInv, Serve
<1>2. PICK n : n = Head(stream[c]).n
  OBVIOUS
<1>3. /\ sent' = sent /\ pending' = pending /\ gone' = gone /\ stream[c] # <<>> /\ AtLine(c)
      /\ Head(stream[c]).kind = "line" /\ sent[c][n].command \notin Storage
  BY <1>2 DEF ReadCommand, NextLine, Line
<1>4. n \in 1..Len(sent[c]) /\ n \in Nat /\ Head(stream[c]) = stream[c][1] /\ stream[c][1].n = n
  BY <1>2, <1>3, HeadFacts
<1>5. said'[c] = IF Replies(sent[c][n]) THEN Append(said[c], n) ELSE said[c]
  <2>1. Says(c, sent[c][n], n)
    BY <1>2 DEF ReadCommand, Line
  <2> QED
    BY <2>1, PaceFacts DEF Says
<1>6. \/ stream'[c] = Tail(stream[c]) /\ conn'[c] = Waiting
      \/ stream'[c] = <<>> /\ conn'[c] = Closed /\ sent[c][n].command = "quit"
  BY <1>2, PaceFacts DEF ReadCommand, Continue, Consume, Close, Line
<1>7. Numbered(sent[c], stream'[c], pending[c])
  BY <1>3, <1>6, ClientFacts, PaceFacts, NumberedTail, NumberedEmpty
<1>8. Between(sent[c], Tail(stream[c]), pending[c], gone[c], n) /\ Lasts(sent[c], pending[c], n)
  <2>1. Ends(sent[c], stream[c][1])
    BY <1>3, <1>4 DEF Ends
  <2>2. Between(sent[c], Tail(stream[c]), pending[c], gone[c], stream[c][1].n)
        /\ Lasts(sent[c], pending[c], stream[c][1].n)
    BY <2>1, <1>3, ClientFacts, PaceFacts, NextRequest
  <2> QED
    BY <2>2, <1>4
<1>9. ASSUME WellSent(sent[c])
      PROVE  Paced(sent[c], stream'[c], pending[c], gone[c], conn'[c], said'[c])
  <2>1. PICK d \in 0..Len(sent[c]) : SaidTo(sent[c], said[c], d) /\ n = d + 1
    BY <1>2, <1>3, <1>9, LineNext
  <2>2. sent[c] \in Seq(Requests) /\ said[c] \in Seq(Nat)
    BY ClientFacts, PaceFacts
  <2>3. \/ conn'[c] = Waiting /\ Between(sent[c], stream'[c], pending[c], gone[c], n)
        \/ conn'[c] = Closed /\ sent[c][n].command = "quit"
    BY <1>6, <1>8
  <2> QED
    BY <1>4, <1>5, <1>8, <2>1, <2>2, <2>3, PacedHandled
<1>10. Paced(sent'[c], stream'[c], pending'[c], gone'[c], conn'[c], said'[c])
  BY <1>3, <1>9 DEF Paced
<1> QED
  BY <1>1, <1>3, <1>7, <1>10, PaceStep

LEMMA HandlePace ==
    ASSUME ConnInv, PaceInv, NEW c \in Clients, HandleBlock(c)
    PROVE  PaceInv'
<1> USE DEF clientVars, serverVars
<1>1. Others(c) /\ Queue'
  BY OthersStay, QueueKept DEF PaceInv, Serve
<1>2. PICK n : n = conn[c].n
  OBVIOUS
<1>3. /\ sent' = sent /\ pending' = pending /\ gone' = gone /\ conn[c].at = "data"
      /\ Len(conn[c].data) = sent[c][n].size /\ (stream[c] # <<>> \/ gone[c] = "fin")
  BY <1>2 DEF HandleBlock, Complete
<1>4. n \in 1..Len(sent[c]) /\ n \in Nat /\ sent[c][n].size \in Nat
  <2>1. n \in 1..Len(sent[c])
    BY <1>2, <1>3, ClientFacts DEF InBlock
  <2> QED
    BY <2>1, ClientFacts DEF Request
<1>5. said'[c] = IF Replies(sent[c][n]) THEN Append(said[c], n) ELSE said[c]
  <2>1. Says(c, sent[c][n], n)
    BY <1>2 DEF HandleBlock
  <2> QED
    BY <2>1, PaceFacts DEF Says
<1>6. /\ stream'[c] = (IF stream[c] = <<>> THEN <<>> ELSE Tail(stream[c]))
      /\ conn'[c] = Waiting
  BY PaceFacts DEF HandleBlock, Continue, Consume
<1>7. Numbered(sent[c], stream'[c], pending[c])
  BY <1>6, ClientFacts, PaceFacts, NumberedTail, NumberedEmpty
<1>8. PICK x : x = TokenOf(sent[c], n, Len(conn[c].data) + 1)
  OBVIOUS
<1>9. x.kind = "eol" /\ x.n = n
  BY <1>3, <1>4, <1>8 DEF TokenOf
<1>10. /\ (stream[c] # <<>>) => stream[c][1] = x
       /\ (stream[c] = <<>>) => pending[c] # <<>> /\ pending[c][1] = x
  BY <1>2, <1>3, <1>8, ClientFacts DEF Reading
<1>11. Between(sent[c], stream'[c], pending[c], gone[c], n) /\ Lasts(sent[c], pending[c], n)
  <2>1. CASE stream[c] # <<>>
    <3>1. Ends(sent[c], stream[c][1])
      BY <2>1, <1>9, <1>10 DEF Ends
    <3>2. Between(sent[c], Tail(stream[c]), pending[c], gone[c], stream[c][1].n)
          /\ Lasts(sent[c], pending[c], stream[c][1].n)
      BY <2>1, <3>1, ClientFacts, PaceFacts, NextRequest
    <3> QED
      BY <2>1, <3>2, <1>6, <1>9, <1>10
  <2>2. CASE stream[c] = <<>>
    <3>1. pending[c] # <<>> /\ pending[c][1].kind = "eol" /\ pending[c][1].n = n
      BY <2>2, <1>9, <1>10
    <3>2. pending[c] \in Seq(Token) /\ Len(pending[c]) \in Nat /\ 1 \in 1..Len(pending[c])
      BY <3>1, ClientFacts
    <3>3. n = Len(sent[c])
      BY <3>1, <3>2, ClientFacts DEF Framing
    <3>4. 1 \notin 1..(Len(pending[c]) - 1)
      BY <3>1, PaceFacts DEF Numbered
    <3>5. \A i \in 1..Len(pending[c]) : i = 1
      BY <3>2, <3>4
    <3>6. stream'[c] = <<>> /\ gone[c] # "no"
      BY <2>2, <1>3, <1>6
    <3> QED
      BY <3>1, <3>3, <3>5, <3>6 DEF Between, Lasts
  <2> QED
    BY <2>1, <2>2
<1>12. ASSUME WellSent(sent[c])
       PROVE  Paced(sent[c], stream'[c], pending[c], gone[c], conn'[c], said'[c])
  <2>1. PICK d \in 0..Len(sent[c]) : SaidTo(sent[c], said[c], d)
                /\ LoopPaced(sent[c], stream[c], pending[c], gone[c], conn[c], d)
    BY <1>12, PaceFacts DEF Paced
  <2>2. n = d + 1
    BY <2>1, <1>2, <1>3 DEF LoopPaced
  <2>3. sent[c] \in Seq(Requests) /\ said[c] \in Seq(Nat)
    BY ClientFacts, PaceFacts
  <2> QED
    BY <1>4, <1>5, <1>6, <1>11, <2>1, <2>2, <2>3, PacedHandled
<1>13. Paced(sent'[c], stream'[c], pending'[c], gone'[c], conn'[c], said'[c])
  BY <1>3, <1>12 DEF Paced
<1> QED
  BY <1>1, <1>3, <1>7, <1>13, PaceStep

LEMMA EndPace ==
    ASSUME ConnInv, PaceInv, NEW c \in Clients,
           BlockEnds(c) \/ LineEnds(c) \/ ReadFails(c) \/ Yield(c) \/ Accept(c)
    PROVE  PaceInv'
<1> USE DEF clientVars, serverVars
<1>1. Others(c) /\ Queue'
  BY OthersStay, QueueKept DEF PaceInv, Serve
<1>2. sent' = sent /\ pending' = pending /\ gone' = gone /\ said' = said
  BY DEF BlockEnds, LineEnds, ReadFails, Yield, Accept
<1>3. CASE BlockEnds(c) \/ LineEnds(c) \/ ReadFails(c)
  <2>1. gone[c] # "no" /\ stream'[c] = <<>> /\ conn'[c] = Closed
    BY <1>3, PaceFacts DEF BlockEnds, LineEnds, ReadFails, Close
  <2>2. Numbered(sent[c], <<>>, pending[c])
    BY PaceFacts, NumberedEmpty
  <2>3. Paced(sent[c], <<>>, pending[c], gone[c], Closed, said[c])
    BY <2>1, PaceFacts, PacedClosed
  <2> QED
    BY <1>1, <1>2, <2>1, <2>2, <2>3, PaceStep
<1>4. CASE Yield(c)
  <2>1. stream' = stream /\ conn' = conn
    BY <1>4 DEF Yield
  <2> QED
    BY <1>1, <1>2, <2>1, PaceFacts, PaceStep
<1>5. CASE Accept(c)
  <2>1. stream' = stream /\ conn'[c] = Waiting
    BY <1>5, PaceFacts DEF Accept
  <2>2. conn[c].at = "backlog"
    <3>1. backlog # <<>> /\ c = backlog[1] /\ 1 \in 1..Len(backlog)
      BY <1>5 DEF Accept, ConnInv, Types
    <3> QED
      BY <3>1 DEF PaceInv, Queue
  <2>3. Paced(sent[c], stream[c], pending[c], gone[c], Waiting, said[c])
    BY <2>2, PaceFacts, StatesTyped DEF Paced, LoopPaced
  <2> QED
    BY <1>1, <1>2, <2>1, <2>3, PaceFacts, PaceStep
<1> QED
  BY <1>3, <1>4, <1>5

LEMMA SendPace ==
    ASSUME ConnInv, PaceInv, NEW c \in Clients,
           SendLine(c) \/ SendMore(c) \/ Leave(c) \/ Connect(c)
    PROVE  PaceInv'
<1> USE DEF clientVars, serverVars, cacheVars
<1>1. Others(c) /\ Queue'
  BY OthersStay, QueueKept DEF PaceInv
<1>2. /\ sent[c] \in Seq(Requests) /\ stream[c] \in Seq(Token) /\ pending[c] \in Seq(Token)
      /\ Framing(sent[c], stream[c], pending[c]) /\ Numbered(sent[c], stream[c], pending[c])
      /\ said[c] \in Seq(Nat) /\ conn[c] \in ConnState
      /\ Paced(sent[c], stream[c], pending[c], gone[c], conn[c], said[c])
  BY ClientFacts, PaceFacts
<1>3. CASE SendLine(c)
  <2>1. PICK n : n = Len(sent[c]) + 1
    OBVIOUS
  <2>2. PICK r \in Requests :
            /\ sent' = [sent EXCEPT ![c] = Append(@, r)]
            /\ stream' = [stream EXCEPT ![c] = Append(@, [kind |-> "line", n |-> n, i |-> 0])]
            /\ pending' = [pending EXCEPT ![c] = Tokens(r, n)]
    BY <1>3, <2>1 DEF SendLine
  <2>3. /\ sent'[c] = Append(sent[c], r) /\ pending'[c] = Tokens(r, n)
        /\ stream'[c] = Append(stream[c], [kind |-> "line", n |-> n, i |-> 0])
    BY <2>2, PaceFacts
  <2>4. /\ pending[c] = <<>> /\ gone' = gone /\ said' = said /\ conn' = conn
        /\ conn[c].at # "out" /\ conn[c].at # "closed"
    BY <1>3 DEF SendLine, Connected
  <2>5. n \in Nat
    BY <1>2, <2>1
  <2>6. Numbered(sent'[c], stream'[c], pending'[c])
    BY <1>2, <2>1, <2>3, <2>4, <2>5, NumberedLine
  <2>7. Paced(sent'[c], stream'[c], pending'[c], gone'[c], conn'[c], said'[c])
    BY <1>2, <2>1, <2>3, <2>4, <2>5, PacedLine
  <2> QED
    BY <1>1, <2>6, <2>7, PaceStep
<1>4. CASE SendMore(c)
  <2>1. /\ sent' = sent /\ gone' = gone /\ said' = said /\ conn' = conn /\ gone[c] = "no"
        /\ pending[c] # <<>> /\ conn[c].at # "out"
        /\ stream'[c] = Append(stream[c], Head(pending[c])) /\ pending'[c] = Tail(pending[c])
    BY <1>4, PaceFacts DEF SendMore, Connected
  <2>2. Numbered(sent'[c], stream'[c], pending'[c])
    BY <1>2, <2>1, NumberedMore
  <2>3. Paced(sent[c], Append(stream[c], Head(pending[c])), Tail(pending[c]), "no", conn[c], said[c])
    BY <1>2, <2>1, PacedMore
  <2> QED
    BY <1>1, <2>1, <2>2, <2>3, PaceStep
<1>5. CASE Leave(c)
  <2>1. /\ sent' = sent /\ said' = said /\ conn' = conn /\ gone[c] = "no"
        /\ stream' = stream /\ pending' = pending /\ gone'[c] # "no"
    BY <1>5, PaceFacts DEF Leave, Connected
  <2>2. Paced(sent[c], stream[c], pending[c], gone'[c], conn[c], said[c])
    <3>1. PICK g : g = gone'[c]
      OBVIOUS
    <3>2. Paced(sent[c], stream[c], pending[c], g, conn[c], said[c])
      BY <1>2, <2>1, <3>1, PacedLeft
    <3> QED
      BY <3>1, <3>2
  <2> QED
    BY <1>1, <1>2, <2>1, <2>2, PaceStep
<1>6. CASE Connect(c)
  <2>1. /\ sent' = sent /\ said' = said /\ gone' = gone /\ stream' = stream /\ pending' = pending
        /\ conn[c].at = "out" /\ conn'[c].at = "backlog"
    BY <1>6, <1>2, PaceFacts DEF Connect, ConnState
  <2>2. Paced(sent[c], stream[c], pending[c], gone[c], conn'[c], said[c])
    BY <1>2, <2>1 DEF Paced, LoopPaced
  <2> QED
    BY <1>1, <1>2, <2>1, <2>2, PaceStep
<1> QED
  BY <1>3, <1>4, <1>5, <1>6

LEMMA StopPace ==
    ASSUME ConnInv, PaceInv, Stop \/ FlushDue
    PROVE  PaceInv'
<1> USE DEF clientVars, serverVars, cacheVars
<1>1. sent' = sent /\ pending' = pending /\ gone' = gone /\ said' = said
  BY DEF Stop, FlushDue
<1>2. CASE FlushDue
  <2>1. stream' = stream /\ conn' = conn /\ backlog' = backlog
    BY <1>2 DEF FlushDue
  <2> QED
    BY <1>1, <2>1 DEF PaceInv, Queue
<1>3. CASE Stop
  <2>1. /\ backlog' = <<>>
        /\ conn' = [c \in Clients |-> IF conn[c].at = "backlog" THEN Refused ELSE conn[c]]
        /\ stream' = [c \in Clients |-> IF conn[c].at = "backlog" THEN <<>> ELSE stream[c]]
    BY <1>3 DEF Stop
  <2>2. Queue'
    <3>1. Len(<<>>) = 0
      OBVIOUS
    <3> QED
      BY <2>1, <3>1 DEF Queue
  <2>3. ASSUME NEW c \in Clients
        PROVE  /\ Numbered(sent[c], stream'[c], pending[c])
               /\ Paced(sent[c], stream'[c], pending[c], gone[c], conn'[c], said[c])
    <3>1. CASE conn[c].at = "backlog"
      <4>1. stream'[c] = <<>> /\ conn'[c] = Refused
        BY <2>1, <3>1
      <4>2. Numbered(sent[c], <<>>, pending[c])
        BY PaceFacts, NumberedEmpty
      <4>3. Paced(sent[c], <<>>, pending[c], gone[c], Refused, said[c])
        BY PaceFacts, StatesTyped DEF Paced, LoopPaced
      <4> QED
        BY <4>1, <4>2, <4>3
    <3>2. CASE conn[c].at # "backlog"
      <4>1. stream'[c] = stream[c] /\ conn'[c] = conn[c]
        BY <2>1, <3>2
      <4> QED
        BY <4>1, PaceFacts
    <3> QED
      BY <3>1, <3>2
  <2> QED
    BY <1>1, <2>2, <2>3 DEF PaceInv
<1> QED
  BY <1>2, <1>3

LEMMA PaceInvInit == Init => PaceInv
<1> SUFFICES ASSUME Init PROVE PaceInv
  OBVIOUS
<1>1. Len(<<>>) = 0
  OBVIOUS
<1>2. Queue
  BY <1>1 DEF Init, Queue
<1>3. ASSUME NEW c \in Clients
      PROVE  /\ Numbered(sent[c], stream[c], pending[c])
             /\ Paced(sent[c], stream[c], pending[c], gone[c], conn[c], said[c])
  <2>1. /\ sent[c] = <<>> /\ stream[c] = <<>> /\ pending[c] = <<>> /\ conn[c] = Out
        /\ said[c] = <<>> /\ gone[c] = "no"
    BY DEF Init
  <2>2. Numbered(<<>>, <<>>, <<>>)
    BY <1>1 DEF Numbered
  <2>3. SaidTo(<<>>, <<>>, 0) /\ Lasts(<<>>, <<>>, 0)
    BY <1>1 DEF SaidTo, Lasts
  <2>4. LoopPaced(<<>>, <<>>, <<>>, "no", Out, 0)
    BY <1>1, StatesTyped DEF LoopPaced, Between
  <2>5. 0 \in 0..Len(<<>>)
    BY <1>1
  <2>6. Paced(<<>>, <<>>, <<>>, "no", Out, <<>>)
    BY <2>3, <2>4, <2>5 DEF Paced
  <2> QED
    BY <2>1, <2>2, <2>6
<1> QED
  BY <1>2, <1>3 DEF PaceInv

LEMMA PaceInvKept == ConnInv /\ PaceInv /\ [Next]_vars => PaceInv'
<1> SUFFICES ASSUME ConnInv, PaceInv, [Next]_vars PROVE PaceInv'
  OBVIOUS
<1>1. ASSUME NEW c \in Clients, Serve(c) PROVE PaceInv'
  BY <1>1, LinePace, CommandPace, ReadPace, HandlePace, EndPace DEF Serve
<1>2. ASSUME NEW c \in Clients,
             Connect(c) \/ SendLine(c) \/ SendMore(c) \/ Leave(c) \/ Accept(c)
      PROVE  PaceInv'
  BY <1>2, SendPace, EndPace
<1>3. CASE UNCHANGED vars
  BY <1>3 DEF vars, clientVars, serverVars, PaceInv, Queue
<1> QED
  BY <1>1, <1>2, <1>3, StopPace DEF Next

LEMMA PaceInvHolds == Spec => []PaceInv
<1> QED
  BY ConnInvHolds, PaceInvInit, PaceInvKept, PTL DEF Spec

(* What has been handled was sent, up to the end of its block.              *)
LEMMA InStepFromInv == ConnInv /\ PaceInv => InStep
<1> SUFFICES ASSUME ConnInv, PaceInv, NEW c \in Clients, WellFormed(c)
             PROVE  /\ \A i, j \in DOMAIN said[c] : i < j => said[c][i] < said[c][j]
                    /\ ToSet(said[c]) \subseteq Wanted(c, BlockSent(c))
                    /\ \A n \in ToSet(said[c]), m \in Wanted(c, BlockSent(c)) :
                            m < n => m \in ToSet(said[c])
                    /\ conn[c].at = "closed" =>
                        \/ gone[c] # "no"
                        \/ \E n \in DOMAIN sent[c] : sent[c][n].command = "quit"
  BY DEF InStep
<1>1. /\ sent[c] \in Seq(Requests) /\ said[c] \in Seq(Nat) /\ pending[c] \in Seq(Token)
      /\ DOMAIN sent[c] = 1..Len(sent[c]) /\ DOMAIN said[c] = 1..Len(said[c])
      /\ DOMAIN pending[c] = 1..Len(pending[c]) /\ Len(sent[c]) \in Nat
  BY ClientFacts, PaceFacts
<1>2. WellSent(sent[c])
  BY <1>1 DEF WellFormed, WellSent
<1>3. PICK d \in 0..Len(sent[c]) : SaidTo(sent[c], said[c], d) /\ Lasts(sent[c], pending[c], d)
            /\ LoopPaced(sent[c], stream[c], pending[c], gone[c], conn[c], d)
  BY <1>2, PaceFacts DEF Paced
<1>4. 1..d \subseteq BlockSent(c)
  <2>1. SUFFICES ASSUME NEW n \in 1..d PROVE n \in BlockSent(c)
    OBVIOUS
  <2>2. n \in DOMAIN sent[c] /\ (n = Len(sent[c]) => d = Len(sent[c]))
    BY <1>1
  <2> QED
    BY <1>1, <1>3, <2>2 DEF BlockSent, Lasts
<1>5. ToSet(said[c]) = {said[c][i] : i \in 1..Len(said[c])}
  BY <1>1 DEF ToSet
<1>6. \A n \in ToSet(said[c]) : n \in 1..d /\ Replies(sent[c][n])
  BY <1>3, <1>5 DEF SaidTo
<1>7. \A n \in 1..d : Replies(sent[c][n]) => n \in ToSet(said[c])
  BY <1>3, <1>5 DEF SaidTo
<1>8. \A n \in ToSet(said[c]), m \in Wanted(c, BlockSent(c)) : m < n => m \in ToSet(said[c])
  <2>1. ASSUME NEW n \in ToSet(said[c]), NEW m \in Wanted(c, BlockSent(c)), m < n
        PROVE  m \in ToSet(said[c])
    <3>1. Replies(sent[c][m]) /\ m \in 1..Len(sent[c]) /\ n \in 1..d
      BY <1>1, <1>6 DEF Wanted, BlockSent
    <3>2. m \in 1..d
      BY <2>1, <3>1
    <3> QED
      BY <3>1, <3>2, <1>7
  <2> QED
    BY <2>1
<1>9. ToSet(said[c]) \subseteq Wanted(c, BlockSent(c))
  BY <1>4, <1>6 DEF Wanted
<1>10. \A i, j \in DOMAIN said[c] : i < j => said[c][i] < said[c][j]
  BY <1>1, <1>3 DEF SaidTo
<1>11. conn[c].at = "closed" =>
            gone[c] # "no" \/ \E n \in DOMAIN sent[c] : sent[c][n].command = "quit"
  BY <1>1, <1>3 DEF LoopPaced, Quits
<1> QED
  BY <1>8, <1>9, <1>10, <1>11

-----------------------------------------------------------------------------
(* The variables of the server, of its clients and of the network always    *)
(* have their types, and the listener is never in the loop of a connection  *)
(* that has ended.                                                          *)
THEOREM PortTyped == Spec => []TypeOK
<1>1. ConnInv => TypeOK
  BY TypeOKFromInv
<1> QED
  BY <1>1, ConnInvHolds, PTL

(* However the network cuts the bytes of any number of clients, whatever    *)
(* they send and wherever they leave: a block in the cache is the whole     *)
(* block of one request, or is empty because its client left within it.     *)
THEOREM ValuesStayWhole == Spec => []WholeValues
<1>1. ConnInv => WholeValues
  BY WholeFromInv
<1> QED
  BY <1>1, ConnInvHolds, PTL

(* Whatever other clients do, and however the network cuts its bytes, a     *)
(* client whose requests are well formed is answered request by request in  *)
(* their order, and its connection lasts until it leaves or quits.          *)
THEOREM RepliesInStep == Spec => []InStep
<1>1. ConnInv /\ PaceInv => InStep
  BY InStepFromInv
<1> QED
  BY <1>1, ConnInvHolds, PaceInvHolds, PTL
=============================================================================
