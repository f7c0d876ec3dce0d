----------------------------- MODULE FrameStream -----------------------------
(***************************************************************************)
(* A node's client side of the network and the servers of its peers: the   *)
(* client thread takes requests to send from a channel and writes each, as *)
(* a frame, to the TCP stream of every peer it is for; a thread per peer   *)
(* connects its stream and writes an empty frame to it every 15 seconds;   *)
(* the peer's server puts the bytes it reads into a buffer, decodes frames *)
(* from it and answers each with an empty frame, which nobody reads.       *)
(*                                                                         *)
(* Bytes go in words of four.  A stream is written under its lock, each    *)
(* write a step.  TCP and the buffers of tokio are modelled from their     *)
(* use: bytes arrive in order, in pieces of any size, until the connection *)
(* breaks; a write waits for room and may write less than it was given.    *)
(***************************************************************************)
EXTENDS Naturals, Sequences

CONSTANTS
    Pairs,          \* the id cards of Connection::peers_pair, in its order
    Me,             \* the id card of the node
    Requests,       \* what the channel carries: an origin, an operation and a message
    Flag,           \* the word 0xDEADBEEF
    WireRoom,       \* words a connection holds on its way to the server
    AnswerRoom,     \* answers a connection holds on the way back
    MaxRequests,    \* bound: requests put into the channel
    MaxConnects,    \* bound: MaxConnects[p], connections made to p, 0 if it does not listen
    MaxFaults,      \* bound: connections that break and writes cut short
    MaxUnread       \* bound: words not decoded after which handshakes stop

Word == Nat

Peer == {Pairs[i] : i \in DOMAIN Pairs}

Operation == {"BROADCAST", "SINGLE", "SUBTRACT"}

ASSUME StreamAssumption ==
    /\ Pairs \in Seq(Word) /\ Pairs # << >>
    /\ Me \in Word /\ Flag \in Word
    /\ Requests \subseteq [origin : Word, op : Operation, msg : Seq(Word)]
    /\ WireRoom \in Nat /\ AnswerRoom \in Nat
    /\ MaxRequests \in Nat /\ MaxFaults \in Nat /\ MaxUnread \in Nat
    /\ MaxConnects \in [Peer -> Nat]

VARIABLES
    requests,   \* the channel of start_client
    at,         \* where the client thread is in peers_pair
    link,       \* link[p]: the connections made to p, in order
    open,       \* open[p]: p's Option<TcpStream> is the last of them, and not None
    sent,       \* how many requests the channel has carried
    faults      \* how many faults there have been

vars == <<requests, at, link, open, sent, faults>>

\* A connection: the words on their way and those in the server's buffer, whether
\* it is up, the answers nobody reads; and, of its history, the payloads decoded
\* from it and those written to it before a write was cut short.
Connection == [wire : Seq(Word), buf : Seq(Word), up : BOOLEAN, answers : Nat,
               decoded : Seq(Seq(Word)), written : Seq(Seq(Word)), whole : BOOLEAN]

NewConnection == [wire |-> << >>, buf |-> << >>, up |-> TRUE, answers |-> 0,
                  decoded |-> << >>, written |-> << >>, whole |-> TRUE]

Last(p) == link[p][Len(link[p])]

\* The answers have filled their way back, and the server reads no more.
Stalled(c) == c.answers = AnswerRoom

-----------------------------------------------------------------------------
(* Frames.                                                                 *)

Frame(payload) == <<Flag, Len(payload)>> \o payload

\* A faulty variant: a frame at the end of the buffer waits for more.
HasFrameAndMore(buf) ==
    /\ Len(buf) >= 2
    /\ buf[1] = Flag
    /\ buf[2] + 2 < Len(buf)

\* `decode' finds a frame at the start of its buffer.
HasFrame(buf) ==
    /\ Len(buf) >= 2
    /\ buf[1] = Flag
    /\ buf[2] + 2 <= Len(buf)

\* A faulty variant: the flag and the length are not skipped.
UnskippedPayload(buf) == SubSeq(buf, 1, buf[2])

Payload(buf) == SubSeq(buf, 3, buf[2] + 2)

AfterFrame(buf) == SubSeq(buf, buf[2] + 3, Len(buf))

-----------------------------------------------------------------------------
(* What becomes of a connection.                                           *)

HasRoom(c, words) == Len(c.wire) + Len(words) <= WireRoom

\* A frame is written.
Sent(c, payload) ==
    [c EXCEPT !.wire = @ \o Frame(payload),
              !.written = IF c.whole THEN Append(@, payload) ELSE @]

\* Part of one is.
CutShort(c, part) == [c EXCEPT !.wire = @ \o part, !.whole = FALSE]

\* It breaks, and n of the words on their way still arrive.
Broken(c, n) == [c EXCEPT !.up = FALSE, !.wire = SubSeq(@, 1, n)]

\* The server's buffer takes n words.
Filled(c, n) ==
    [c EXCEPT !.buf = @ \o SubSeq(c.wire, 1, n), !.wire = SubSeq(@, n + 1, Len(@))]

\* A payload goes to net_msg_handler, which sends what follows its first word, if
\* anything does, to the main loop, and answers.
Decoded(c) ==
    [c EXCEPT !.decoded = Append(@, Payload(c.buf)),
              !.buf = AfterFrame(@),
              !.answers = @ + 1]

\* `write', under the lock of p's stream, to the last of p's connections: of the
\* whole frame, or of its first n words; or the connection has broken and the bytes
\* are lost, whatever `write' returns.
Write(links, p, payload) ==
    LET k == Len(links[p])
        c == links[p][k]
    IN  \/ /\ c.up /\ HasRoom(c, Frame(payload))
           /\ link' = [links EXCEPT ![p][k] = Sent(c, payload)]
           /\ UNCHANGED faults
        \/ /\ c.up /\ faults < MaxFaults
           /\ faults' = faults + 1
           /\ \E n \in 1 .. Len(Frame(payload)) - 1 :
                 LET part == SubSeq(Frame(payload), 1, n)
                 IN  /\ HasRoom(c, part)
                     /\ link' = [links EXCEPT ![p][k] = CutShort(c, part)]
        \/ /\ ~ c.up
           /\ link' = links
           /\ UNCHANGED faults

-----------------------------------------------------------------------------
(* The client thread.                                                      *)

\* ctx.send, of the main loop and the miner.
Request(r) ==
    /\ sent < MaxRequests
    /\ sent' = sent + 1
    /\ requests' = Append(requests, r)
    /\ UNCHANGED <<at, link, open, faults>>

IsSend(p, r) ==
    \/ r.op = "BROADCAST"
    \/ r.op = "SINGLE" /\ p = r.origin
    \/ r.op = "SUBTRACT" /\ p # r.origin

\* A faulty variant: the request stays in the channel.
AdvanceAndRepeat ==
    /\ at' = IF at < Len(Pairs) THEN at + 1 ELSE 1
    /\ UNCHANGED requests

\* The loop over peers_pair, in that over the channel.
Advance ==
    /\ at' = IF at < Len(Pairs) THEN at + 1 ELSE 1
    /\ requests' = IF at < Len(Pairs) THEN requests ELSE Tail(requests)

\* What `write' returns is not looked at.
Broadcast ==
    /\ requests # << >>
    /\ LET p == Pairs[at]
           r == Head(requests)
       IN  IF IsSend(p, r) /\ open[p]
           THEN Write(link, p, <<Me>> \o r.msg)
           ELSE UNCHANGED <<link, faults>>
    /\ Advance
    /\ UNCHANGED <<open, sent>>

-----------------------------------------------------------------------------
(* The thread of a peer.                                                   *)

\* A stream that is None is connected, if the peer listens, and its first
\* handshake is written.  The lock of the stream is held until the connection is
\* made or given up, which the operating system sees to, and a client that has come
\* to p waits for that: the step is the end of the wait.
Connect(p) ==
    /\ ~ open[p]
    /\ Len(link[p]) < MaxConnects[p]
    /\ open' = [open EXCEPT ![p] = TRUE]
    /\ Write([link EXCEPT ![p] = Append(@, NewConnection)], p, << >>)
    /\ UNCHANGED <<requests, at, sent>>

Handshake(p) ==
    /\ open[p]
    /\ Len(Last(p).wire \o Last(p).buf) <= MaxUnread
    /\ Write(link, p, << >>)
    /\ UNCHANGED <<requests, at, open, sent>>

\* A faulty variant: the error does not count.
ReconnectNever(p) ==
    /\ open[p] /\ ~ Last(p).up
    /\ UNCHANGED vars

\* The handshake's write returns the error of a broken connection.
NeedReconnect(p) ==
    /\ open[p] /\ ~ Last(p).up
    /\ open' = [open EXCEPT ![p] = FALSE]
    /\ UNCHANGED <<requests, at, link, sent, faults>>

-----------------------------------------------------------------------------
(* The network and the servers.                                            *)

\* What has arrived can still be read, beside the connection that takes this
\* one's place.
Break(p, k) ==
    /\ link[p][k].up
    /\ faults < MaxFaults
    /\ faults' = faults + 1
    /\ \E n \in 0 .. Len(link[p][k].wire) :
          link' = [link EXCEPT ![p][k] = Broken(@, n)]
    /\ UNCHANGED <<requests, at, open, sent>>

\* Framed reads more words when its buffer holds no frame.
Read(p, k) ==
    /\ ~ Stalled(link[p][k])
    /\ ~ HasFrame(link[p][k].buf)
    /\ \E n \in 1 .. Len(link[p][k].wire) :
          link' = [link EXCEPT ![p][k] = Filled(@, n)]
    /\ UNCHANGED <<requests, at, open, sent, faults>>

Decode(p, k) ==
    /\ ~ Stalled(link[p][k])
    /\ HasFrame(link[p][k].buf)
    /\ link' = [link EXCEPT ![p][k] = Decoded(@)]
    /\ UNCHANGED <<requests, at, open, sent, faults>>

Init ==
    /\ requests = << >>
    /\ at = 1
    /\ link = [p \in Peer |-> << >>]
    /\ open = [p \in Peer |-> FALSE]
    /\ sent = 0
    /\ faults = 0

Serve(p) == \E k \in DOMAIN link[p] : Read(p, k) \/ Decode(p, k)

Next ==
    \/ \E r \in Requests : Request(r)
    \/ Broadcast
    \/ \E p \in Peer :
          \/ Connect(p) \/ Handshake(p) \/ NeedReconnect(p)
          \/ \E k \in DOMAIN link[p] : Break(p, k)
          \/ \E k \in DOMAIN link[p] : Read(p, k)
          \/ \E k \in DOMAIN link[p] : Decode(p, k)

Spec == Init /\ [][Next]_vars

\* The client thread and the servers run, the threads of the peers come round, a
\* peer listens, and writing to a broken connection fails at last.
Fairness ==
    /\ WF_vars(Broadcast)
    /\ \A p \in Peer : WF_vars(Connect(p)) /\ WF_vars(NeedReconnect(p)) /\ WF_vars(Serve(p))

FairSpec == Spec /\ Fairness

-----------------------------------------------------------------------------
(* Properties.                                                             *)

TypeOK ==
    /\ requests \in Seq(Requests)
    /\ at \in DOMAIN Pairs
    /\ link \in [Peer -> Seq(Connection)]
    /\ open \in [Peer -> BOOLEAN]
    /\ sent \in Nat /\ faults \in Nat

\* What was written to a connection before a write was cut short is decoded from
\* it as it was written, in that order and once, whatever the pieces in which it
\* arrives and the words it carries, the flag included; and, no write having been
\* cut short, nothing else is.
DecodedAsWritten ==
    \A p \in Peer : \A k \in DOMAIN link[p] :
        LET c == link[p][k]
        IN  /\ \A i \in DOMAIN c.decoded \intersect DOMAIN c.written : c.decoded[i] = c.written[i]
            /\ c.whole => Len(c.decoded) <= Len(c.written)

\* A stream whose connection is lost gets another.
Reconnects ==
    \A p \in Peer : (open[p] /\ ~ Last(p).up) ~> (open[p] /\ Last(p).up)

\* What was written to a connection before a write was cut short is decoded at
\* last, unless the connection breaks or the answers nobody reads have filled it.
DecodedAtLast ==
    \A p \in Peer : \A k \in 1 .. MaxConnects[p] : \A n \in 1 .. AnswerRoom :
        LET Written == k \in DOMAIN link[p] /\ n \in DOMAIN link[p][k].written
            Arrived == k \in DOMAIN link[p] /\ n \in DOMAIN link[p][k].decoded
            Ended == k \in DOMAIN link[p] /\ (~ link[p][k].up \/ Stalled(link[p][k]))
        IN  Written ~> (Arrived \/ Ended)

\* The client thread comes to the end of its requests, whichever peers are not
\* connected or have lost their connections: only a server that the answers have
\* filled, and that is then written to until the way to it is full, can keep it
\* from serving the other peers.
ClientServes ==
    (requests # << >>) ~>
        \/ requests = << >>
        \/ \E p \in Peer : open[p] /\ Last(p).up /\ Stalled(Last(p))

=============================================================================
