-------------------------------- MODULE Http --------------------------------
(***************************************************************************)
(* The HTTP server of net.c: one TCP connection, POST /api/upload, and     *)
(* net_poll, called by the idle task and, while that one may be anywhere   *)
(* inside it, by whatever else polls the network: a game's SYS_NET or the  *)
(* beaming loops.                                                          *)
(*                                                                         *)
(* A client is one TCP connection of a peer; its request is a stream of    *)
(* units, HeadLen of them headers, the others the posted file.  What the   *)
(* LAN loses, repeats or reorders is left to the clients: the next frame   *)
(* is any of any client.                                                   *)
(***************************************************************************)
EXTENDS Naturals, Sequences

CONSTANTS
    Clients,
    Readers,        \* the clients that send a GET, or what is refused
    Pollers,        \* the tasks that call net_poll
    HeadLen,        \* units of the request headers
    BodyLen,        \* units of the file posted
    MSS,            \* units one segment carries at most
    REQ_CAP,        \* units conn.req holds
    NoClient

ASSUME HttpAssumption ==
    /\ {HeadLen, BodyLen, MSS, REQ_CAP} \subseteq Nat \ {0}
    /\ HeadLen <= REQ_CAP /\ Readers \subseteq Clients /\ NoClient \notin Clients
    /\ Clients # {}

Units == 1 .. HeadLen + BodyLen
StreamLen(c) == IF c \in Readers THEN HeadLen ELSE HeadLen + BodyLen
Body(c) == [i \in 1 .. BodyLen |-> <<c, HeadLen + i>>]
Cells == (Clients \X Units) \cup {<<NoClient, 0>>}

VARIABLES
    conn,           \* the one connection
    upload_buf,     \* the staging buffer, which no new connection clears
    frame_in,       \* the frame net_poll took from the NIC last
    poller,         \* where each poller is inside net_poll
    file,           \* what the volume holds under the name each client gives
    told            \* the clients answered that their upload is saved (history)

httpVars == <<conn, upload_buf, frame_in, poller, file, told>>

\* SYN and RST, segments of the client's stream, and FIN, with its end or
\* early.
WellFormed(f) ==
    /\ f.last <= StreamLen(f.client) /\ f.first <= f.last
    /\ f.first = 0 <=> f.last = 0
    /\ f.first # 0 => f.last < f.first + MSS /\ f.type = "seg"
    /\ f.fin => f.type = "seg" /\ f.last \in {0, StreamLen(f.client)}

Frames ==
    {f \in [type : {"syn", "rst", "seg"}, client : Clients, first : Units \cup {0},
            last : Units \cup {0}, fin : BOOLEAN] : WellFormed(f)}

HttpTypeOK ==
    /\ conn \in [state : {"LISTEN", "SYN_RCVD", "ESTAB", "FIN_SENT"},
                 peer : Clients \cup {NoClient}, rcv_nxt : 1 .. HeadLen + BodyLen + 1,
                 req_len : 0 .. REQ_CAP, uploading : BOOLEAN,
                 body_have : 0 .. BodyLen, name : Clients \cup {NoClient}]
    /\ upload_buf \in [1 .. BodyLen -> Cells]
    /\ frame_in \in Frames
    /\ \A p \in Pollers :
        /\ poller[p].pc \in {"out", "handle", "save", "answer"}
        /\ poller[p].name \in Clients \cup {NoClient}
        /\ Len(poller[p].data) <= BodyLen /\ poller[p].ok \in BOOLEAN
    /\ file \in [Clients -> {<<>>} \cup [1 .. BodyLen -> Cells]]
    /\ told \subseteq Clients

Outside == [pc |-> "out", name |-> NoClient, data |-> <<>>, ok |-> FALSE]
NoFrame == [type |-> "rst", client |-> CHOOSE c \in Clients : TRUE, first |-> 0,
            last |-> 0, fin |-> FALSE]

Blank == [i \in 1 .. BodyLen |-> <<NoClient, 0>>]

HttpInit ==
    /\ conn = [state |-> "LISTEN", peer |-> NoClient, rcv_nxt |-> 1, req_len |-> 0,
               uploading |-> FALSE, body_have |-> 0, name |-> NoClient]
    /\ upload_buf = Blank
    /\ frame_in = NoFrame
    /\ poller = [p \in Pollers |-> Outside]
    /\ file = [c \in Clients |-> <<>>]
    /\ told = {}

-----------------------------------------------------------------------------
\* rtl8139_recv into the static frame_in.
Fetch(p, f) ==
    /\ poller[p].pc = "out"
    /\ frame_in' = f
    /\ poller' = [poller EXCEPT ![p].pc = "handle"]
    /\ UNCHANGED <<conn, upload_buf, file, told>>

-----------------------------------------------------------------------------
(***************************************************************************)
(* handle_tcp, of the frame that is in frame_in by now.                    *)
(***************************************************************************)
Handling(p) == poller[p].pc = "handle"

\* A frame nobody is looking at any more is forgotten.
Release(p) ==
    frame_in' = IF \E q \in Pollers \ {p} : poller[q].pc = "handle" THEN frame_in ELSE NoFrame
Leave(p) == poller' = [poller EXCEPT ![p] = Outside] /\ Release(p)
Save(p, name) ==
    /\ poller' = [poller EXCEPT ![p].pc = "save", ![p].name = name]
    /\ Release(p)

HandleRst(p) ==
    /\ Handling(p) /\ frame_in.type = "rst"
    /\ conn' = [conn EXCEPT !.state = "LISTEN"]
    /\ Leave(p)
    /\ UNCHANGED <<upload_buf, file, told>>

\* The code clears neither upload_buf nor body_have for a new connection; what
\* nobody reads before it is written again is forgotten here.
Unstage ==
    upload_buf' = IF \E q \in Pollers : poller[q].pc = "save" THEN upload_buf ELSE Blank

\* Mutant: a new connection goes on with the upload of the one it usurps.
HandleSyn_KeepsUpload(p) ==
    /\ Handling(p) /\ frame_in.type = "syn"
    /\ conn' = [conn EXCEPT !.state = "SYN_RCVD", !.peer = frame_in.client,
                            !.rcv_nxt = 1, !.req_len = 0]
    /\ Unstage
    /\ Leave(p)
    /\ UNCHANGED <<file, told>>

\* Any SYN takes the slot, also from a connection that is served.
HandleSyn(p) ==
    /\ Handling(p) /\ frame_in.type = "syn"
    /\ conn' = [conn EXCEPT !.state = "SYN_RCVD", !.peer = frame_in.client,
                            !.rcv_nxt = 1, !.req_len = 0, !.uploading = FALSE,
                            !.body_have = 0]
    /\ Unstage
    /\ Leave(p)
    /\ UNCHANGED <<file, told>>

FromPeer == frame_in.type = "seg" /\ conn.state # "LISTEN" /\ frame_in.client = conn.peer
Receiving == FromPeer /\ conn.state \in {"SYN_RCVD", "ESTAB"}

HandleOther(p) ==
    /\ Handling(p) /\ frame_in.type = "seg" /\ ~Receiving
    /\ conn' = IF FromPeer /\ frame_in.fin THEN [conn EXCEPT !.state = "LISTEN"] ELSE conn
    /\ Leave(p)
    /\ UNCHANGED <<upload_buf, file, told>>

InOrder == frame_in.first # 0 /\ frame_in.first = conn.rcv_nxt
Taken(space) == LET n == frame_in.last - frame_in.first + 1 IN IF n < space THEN n ELSE space

\* After the data: "Peer gave up early", also right after its request was
\* answered.
AfterFin(state) == IF frame_in.fin THEN "FIN_SENT" ELSE state

\* Nothing new in it; the ACK may complete the handshake.
HandleNoData(p) ==
    /\ Handling(p) /\ Receiving /\ ~InOrder
    /\ conn' = [conn EXCEPT !.state = AfterFin("ESTAB")]
    /\ Leave(p)
    /\ UNCHANGED <<upload_buf, file, told>>

\* n units from position first of the peer's stream go into upload_buf.
Stage(at, first, n) ==
    upload_buf' = [i \in 1 .. BodyLen |->
        IF i \in at + 1 .. at + n THEN <<conn.peer, first + i - at - 1>> ELSE upload_buf[i]]

\* conn.req fills; what does not fit is acknowledged and dropped.
Held == conn.req_len + Taken(REQ_CAP - conn.req_len)
Requesting(p) == Handling(p) /\ Receiving /\ InOrder /\ ~conn.uploading

HandleHeaders(p) ==
    /\ Requesting(p) /\ Held < HeadLen
    /\ conn' = [conn EXCEPT !.state = AfterFin("ESTAB"), !.req_len = Held,
                            !.rcv_nxt = frame_in.last + 1]
    /\ Leave(p)
    /\ UNCHANGED <<upload_buf, file, told>>

\* What http_route answers without changing anything, and what is refused.
http_route(c) == c \in Readers

\* http_respond to anything but an upload.
HandleGet(p) ==
    /\ Requesting(p) /\ Held >= HeadLen /\ http_route(conn.peer)
    /\ conn' = [conn EXCEPT !.state = "FIN_SENT", !.req_len = Held,
                            !.rcv_nxt = frame_in.last + 1]
    /\ Leave(p)
    /\ UNCHANGED <<upload_buf, file, told>>

\* http_respond to an upload: the body that rode in seeds upload_buf.
HandlePost(p) ==
    LET already == Held - HeadLen
        done == already >= BodyLen
    IN  /\ Requesting(p) /\ Held >= HeadLen /\ ~http_route(conn.peer)
        /\ conn' = [conn EXCEPT !.state = IF done THEN "ESTAB" ELSE AfterFin("ESTAB"),
                                !.req_len = Held, !.rcv_nxt = frame_in.last + 1,
                                !.uploading = ~done,
                                !.body_have = already, !.name = conn.peer]
        /\ Stage(0, HeadLen + 1, already)
        /\ IF done
           THEN Save(p, conn.peer)
           ELSE Leave(p)
        /\ UNCHANGED <<file, told>>

\* Mutant: complete is one unit beyond the end.
HandleBody_Never(p) ==
    LET n == Taken(BodyLen - conn.body_have)
    IN  /\ Handling(p) /\ Receiving /\ InOrder /\ conn.uploading
        /\ Stage(conn.body_have, frame_in.first, n)
        /\ conn' = [conn EXCEPT !.state = AfterFin("ESTAB"), !.body_have = @ + n,
                                !.rcv_nxt = frame_in.last + 1]
        /\ Leave(p)
        /\ UNCHANGED <<file, told>>

HandleBody(p) ==
    LET n == Taken(BodyLen - conn.body_have)
        done == conn.body_have + n >= BodyLen
    IN  /\ Handling(p) /\ Receiving /\ InOrder /\ conn.uploading
        /\ Stage(conn.body_have, frame_in.first, n)
        /\ conn' = [conn EXCEPT !.state = IF done THEN "ESTAB" ELSE AfterFin("ESTAB"),
                                !.body_have = @ + n, !.rcv_nxt = frame_in.last + 1]
        /\ IF done
           THEN Save(p, conn.name)
           ELSE Leave(p)
        /\ UNCHANGED <<file, told>>

-----------------------------------------------------------------------------
(***************************************************************************)
(* http_finish_upload.  fat32_save reads upload_buf cluster by cluster and *)
(* leaves the old file alone until its end (module Fat32).                 *)
(***************************************************************************)
Saving(p) == poller[p].pc = "save"

SaveUnit(p) ==
    /\ Saving(p) /\ Len(poller[p].data) < BodyLen
    /\ poller' = [poller EXCEPT ![p].data = Append(@, upload_buf[Len(@) + 1])]
    /\ UNCHANGED <<conn, upload_buf, frame_in, file, told>>

SaveDone(p) ==
    /\ Saving(p) /\ Len(poller[p].data) = BodyLen
    /\ file' = [file EXCEPT ![poller[p].name] = poller[p].data]
    /\ poller' = [poller EXCEPT ![p].pc = "answer", ![p].ok = TRUE]
    /\ UNCHANGED <<conn, upload_buf, frame_in, told>>

SaveFails(p) ==
    /\ Saving(p)
    /\ poller' = [poller EXCEPT ![p].pc = "answer", ![p].ok = FALSE]
    /\ UNCHANGED <<conn, upload_buf, frame_in, file, told>>

\* The response and FIN, to whoever the connection is with by now.
Answer(p) ==
    /\ poller[p].pc = "answer"
    /\ conn' = [conn EXCEPT !.uploading = FALSE, !.state = "FIN_SENT"]
    /\ told' = IF poller[p].ok THEN told \cup {conn.peer} ELSE told
    /\ Leave(p)
    /\ UNCHANGED <<upload_buf, file>>

-----------------------------------------------------------------------------
Work(p) ==
    \/ HandleRst(p) \/ HandleSyn(p) \/ HandleOther(p) \/ HandleNoData(p)
    \/ HandleHeaders(p) \/ HandleGet(p) \/ HandlePost(p) \/ HandleBody(p)
    \/ SaveUnit(p) \/ SaveDone(p) \/ SaveFails(p) \/ Answer(p)

HttpNext == \E p \in Pollers : Work(p) \/ \E f \in Frames : Fetch(p, f)

HttpSpec == HttpInit /\ [][HttpNext]_httpVars

\* The segment the server waits for.
FetchWanted(p) ==
    \E f \in Frames :
        /\ f.type = "seg" /\ f.client = conn.peer /\ ~f.fin /\ f.first = conn.rcv_nxt
        /\ Fetch(p, f)

-----------------------------------------------------------------------------
(***************************************************************************)
(* Properties.                                                             *)
(***************************************************************************)
\* net.c: "POST /api/upload?name=X.ELF - write the request body to
\* /games/X.ELF".  Whatever is lost, repeated, reordered, reset or usurped,
\* the volume never holds anything under a client's name but what that
\* client posted, and the client that is told so finds its file there.
FileIsWhole == \A c \in Clients : file[c] # <<>> => file[c] = Body(c)
UploadIsWhole == FileIsWhole /\ \A c \in told : file[c] = Body(c)

\* Some of the body came with the headers and did not fit.
Overflowed == conn.rcv_nxt - 1 > HeadLen + conn.body_have
Serving == conn.uploading /\ conn.state = "ESTAB"

\* An upload ends, with an answer or with its connection reset, closed or
\* usurped, if its client goes on sending: the one slot is not blocked for
\* ever.  Except when the last segment of the headers overflowed conn.req:
\* then the server waits for bytes it has already acknowledged.
UploadEnds == Serving ~> (~Serving \/ Overflowed)
=============================================================================
