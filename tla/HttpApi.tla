-------------------------------- MODULE HttpApi --------------------------------
(***************************************************************************)
(* An HTTPS request from HTTPAPIEX_ExecuteRequest (HttpApiEx) down to the   *)
(* TLS io (httpapi_compact.c).  The calls wait: they pump the io with       *)
(* xio_dowork, look at the flags its callbacks set, and count their turns.   *)
(* One step is one turn of such a loop; the io reports at most one thing    *)
(* in a turn.                                                               *)
(*                                                                         *)
(* The bytes of a response are tokens: CR, LF, a status line, a length, and *)
(* bytes of a body, the ones of one execution distinct from another's.      *)
(* The server answers once it has the whole request, in any of the ways of  *)
(* Responses, or stays silent; the network delivers any part at a time.     *)
(***************************************************************************)
EXTENDS HttpApiEx, SequencesExt

CONSTANTS
  MaxRequests, (* bound on the requests                                      *)
  MaxCuts,     (* bound on the partial deliveries in an execution             *)
  Parts,       (* calls of xio_send for a request                            *)
  MaxOpen, MaxSend, MaxReceive, MaxClose (* MAX_..._RETRY                     *)

ASSUME HttpAssumption ==
  /\ MaxRequests \in Nat /\ MaxCuts \in Nat /\ Parts \in Nat \ {0}
  /\ MaxOpen \in Nat /\ MaxSend \in Nat /\ MaxReceive \in Nat /\ MaxClose \in Nat

VARIABLES
  pc,       (* where HTTPAPI_ExecuteRequest or HTTPAPI_CloseConnection is    *)
  tries,    (* countRetry                                                    *)
  parts,    (* what is left to send                                          *)
  connected, ioError, sendDone, (* the flags of HTTP_HANDLE_DATA             *)
  received, (* received_bytes                                                *)
  line,     (* the line read so far                                          *)
  chunked, bodyLength, (* what the headers said                              *)
  want,     (* how many bytes the call waits for                             *)
  chunksSize, (* size: the bytes of the chunks read so far                   *)
  content,  (* responseContent                                               *)
  (* The io and the server:                                                  *)
  io,       (* the state of the TLS io                                       *)
  wire,     (* the tokens on their way                                       *)
  (* History, read by the properties only:                                   *)
  requests,
  cuts,     (* the partial deliveries of the execution                       *)
  body,     (* the body the server sent to this execution                    *)
  split,    (* a delivery ended between a CR and its LF                      *)
  leftover  (* the execution began with a part of an earlier body            *)

locals == <<line, chunked, bodyLength, want, chunksSize>>
reading == <<locals, content>>
flags == <<connected, ioError, sendDone>>
network == <<io, wire, received>>
httpHistory == <<requests, cuts, body, split, leftover>>
httpVars == <<pc, tries, parts, flags, reading, network, httpHistory>>
apiVars == <<exVars, httpVars>>

-------------------------------------------------------------------------------
(* Tokens; those of a body say which execution it belongs to.               *)
Token == [t : {"CR", "LF", "status", "length", "chunked", "size", "other",
               "body", "junk"}, n : Nat]

CR == [t |-> "CR", n |-> 0]
LF == [t |-> "LF", n |-> 0]
Junk == [t |-> "junk", n |-> 0]

End == <<CR, LF>>
Line(t, n) == <<[t |-> t, n |-> n]>> \o End
Bytes(from, to) ==
  [i \in 1 .. to - from + 1 |->
     [t |-> "body", n |-> 10 * (4 * requests + runs) + from + i - 1]]

Headers(fields) == Line("status", 200) \o fields \o End
Chunk(from, to) == Line("size", to - from + 1) \o Bytes(from, to) \o End

(* What a server may answer: nothing but headers, a body of known length,   *)
(* a chunked one, one whose second chunk is no chunk, or not HTTP at all.   *)
Responses ==
  { [bytes |-> Headers(<<>>), body |-> <<>>],
    [bytes |-> Headers(Line("length", 2)) \o Bytes(1, 2), body |-> Bytes(1, 2)],
    [bytes |-> Headers(Line("chunked", 0)) \o Chunk(1, 1) \o Chunk(2, 2)
               \o Line("size", 0) \o End, body |-> Bytes(1, 2)],
    [bytes |-> Headers(Line("chunked", 0)) \o Chunk(1, 1) \o Line("other", 0),
     body |-> Bytes(1, 1)],
    [bytes |-> Line("other", 0), body |-> <<>>] }

Silence == [bytes |-> <<>>, body |-> <<Junk>>]

Lines == {"status", "header", "chunk"}
Data == {"body", "chunkData", "chunkEnd", "lastEnd"}
Waiting == {"opening", "sending", "closing"} \cup Lines \cup Data

HttpTypeOK ==
  /\ ExTypeOK
  /\ pc \in {"none", "open", "send", "spin", "close"} \cup Waiting
  /\ tries \in Int /\ parts \in 0 .. Parts
  /\ connected \in BOOLEAN /\ ioError \in BOOLEAN
  /\ received \in Seq(Token) /\ line \in Seq(Token)
  /\ chunked \in BOOLEAN /\ bodyLength \in Nat /\ want \in Nat /\ chunksSize \in Nat
  /\ content \in Seq(Token)
  /\ io \in {"closed", "opening", "open", "closing", "dead"}
  /\ wire \in Seq(Token) /\ body \in Seq(Token)
  /\ requests \in 0 .. MaxRequests /\ cuts \in 0 .. MaxCuts
  /\ split \in BOOLEAN /\ leftover \in BOOLEAN

HttpInit ==
  /\ ExInit
  /\ pc = "none" /\ tries = 0 /\ parts = 0
  /\ connected = FALSE /\ ioError = FALSE /\ sendDone = FALSE
  /\ received = <<>> /\ line = <<>> /\ chunked = FALSE
  /\ bodyLength = 0 /\ want = 0 /\ chunksSize = 0 /\ content = <<>>
  /\ io = "closed" /\ wire = <<>>
  /\ requests = 0 /\ cuts = 0 /\ body = <<>>
  /\ split = FALSE /\ leftover = FALSE

-------------------------------------------------------------------------------
(* The callbacks the io makes while a loop pumps it.                        *)
OnOpenComplete ==
  /\ io = "opening"
  /\ \/ io' = "open" /\ connected' = TRUE /\ ioError' = FALSE
     \/ io' = "dead" /\ ioError' = TRUE /\ UNCHANGED connected
  /\ UNCHANGED <<sendDone, received, wire>>

OnSendComplete ==
  /\ io = "open" /\ pc = "sending" /\ ~sendDone
  /\ \/ sendDone' = TRUE /\ ioError' = FALSE
     \/ ioError' = TRUE /\ UNCHANGED sendDone
  /\ UNCHANGED <<connected, received, io, wire>>

(* Bytes arrive; when they cannot be kept that is an error of the io.       *)
OnBytesReceived ==
  /\ io = "open"
  /\ \E n \in 1 .. Len(wire) :
       /\ IF n = Len(wire) THEN UNCHANGED cuts
          ELSE cuts < MaxCuts /\ cuts' = cuts + 1
       /\ wire' = SubSeq(wire, n + 1, Len(wire))
       /\ \/ received' = received \o SubSeq(wire, 1, n) /\ UNCHANGED ioError
          \/ ioError' = TRUE /\ UNCHANGED received
  /\ split' = (split \/ (received' # <<>> /\ Last(received') = CR))
  /\ UNCHANGED <<connected, sendDone, io>>

OnIoError ==
  /\ io \in {"open", "closing"} /\ io' = "dead" /\ ioError' = TRUE
  /\ UNCHANGED <<connected, sendDone, received, wire>>

OnCloseComplete ==
  /\ io = "closing" /\ io' = "closed" /\ connected' = FALSE
  /\ UNCHANGED <<ioError, sendDone, received, wire>>

Report ==
  /\ pc \in Waiting
  /\ \/ OnBytesReceived
     \/ /\ OnOpenComplete \/ OnSendComplete \/ OnIoError \/ OnCloseComplete
        /\ UNCHANGED <<cuts, split>>
  /\ UNCHANGED <<exVars, pc, tries, parts, reading, requests, body, leftover>>

-------------------------------------------------------------------------------
(* A request, its response headers and content new.                         *)
Request ==
  /\ requests < MaxRequests /\ requests' = requests + 1
  /\ Begin
  /\ content' = <<>>
  /\ UNCHANGED <<pc, tries, parts, flags, locals, network, cuts, body, split,
                 leftover>>

Initialize == InitLibrary /\ UNCHANGED httpVars

(* HTTPAPI_CreateConnection: a new io, nothing received.                    *)
Create ==
  /\ CreateConnection
  /\ connected' = FALSE /\ ioError' = FALSE
  /\ received' = <<>> /\ io' = "closed" /\ wire' = <<>>
  /\ UNCHANGED <<pc, tries, parts, sendDone, reading, httpHistory>>

Skip == TriedBefore /\ UNCHANGED httpVars

(* HTTPAPI_ExecuteRequest begins: content may hold what an earlier execution *)
(* of the same request left there.                                          *)
Start ==
  /\ Execute
  /\ pc' = "open" /\ leftover' = (content # <<>>)
  /\ UNCHANGED <<tries, parts, flags, reading, network, requests, cuts, body,
                 split>>

(* It ends: what was received and not used is discarded, and its variables  *)
(* are gone.                                                                *)
Discard ==
  /\ received' = <<>> /\ UNCHANGED <<io, wire>>
  /\ tries' = 0 /\ parts' = 0 /\ sendDone' = FALSE
  /\ line' = <<>> /\ chunked' = FALSE /\ bodyLength' = 0 /\ want' = 0 /\ chunksSize' = 0
  /\ cuts' = 0 /\ body' = <<>> /\ split' = FALSE /\ leftover' = FALSE
  /\ UNCHANGED requests

FailedWith(left) ==
  /\ Fail
  /\ pc' = "close" /\ Discard
  /\ content' = left
  /\ UNCHANGED <<connected, ioError>>

Failed == FailedWith(content)

Finished(answer) ==
  /\ Succeed
  /\ pc' = "none" /\ Discard
  /\ content' = answer
  /\ UNCHANGED <<connected, ioError>>

(* The next step of the same execution.                                     *)
GoOn(next) == pc' = next /\ UNCHANGED <<exVars, httpHistory>>

(* A turn of a loop that counts its turns.                                  *)
(* Mutant: the count starts anew in every turn.                             *)
Spend_Never == UNCHANGED tries

Spend == tries' = tries - 1

(* OpenXIOConnection                                                        *)
Open ==
  /\ pc = "open"
  /\ \/ /\ connected /\ ~ioError
        /\ GoOn("send") /\ parts' = Parts
        /\ UNCHANGED <<tries, flags, network, reading>>
     \/ /\ ~connected
        /\ GoOn("opening") /\ tries' = MaxOpen
        /\ ioError' = FALSE /\ io' = "opening"
        /\ UNCHANGED <<parts, connected, sendDone, received, wire, reading>>
     \/ Failed

Opening ==
  /\ pc = "opening"
  /\ \/ (tries < 0 \/ ioError) /\ Failed
     \/ /\ tries >= 0 /\ ~ioError
        /\ Spend
        /\ IF connected THEN GoOn("send") /\ parts' = Parts
           ELSE GoOn("opening") /\ UNCHANGED parts
        /\ UNCHANGED <<flags, network, reading>>

(* conn_send_all: xio_send fails, or has sent all already, or will tell.    *)
Send ==
  /\ pc = "send" /\ parts > 0
  /\ \/ Failed
     \/ /\ io = "open"
        /\ ioError' = FALSE /\ tries' = MaxSend
        /\ \/ sendDone' = TRUE /\ GoOn("send") /\ parts' = parts - 1
           \/ sendDone' = FALSE /\ GoOn("sending") /\ UNCHANGED parts
        /\ UNCHANGED <<connected, network, reading>>

Sending ==
  /\ pc = "sending"
  /\ \/ (ioError \/ tries <= 0) /\ Failed
     \/ /\ ~ioError /\ tries > 0
        /\ Spend
        /\ IF sendDone THEN GoOn("send") /\ parts' = parts - 1
           ELSE GoOn("sending") /\ UNCHANGED parts
        /\ UNCHANGED <<flags, network, reading>>

(* The next line is to be read.                                             *)
NextLine(what) ==
  /\ GoOn(what)
  /\ line' = <<>> /\ tries' = MaxReceive

(* The request is sent and the server has its answer, or none.              *)
Sent ==
  /\ pc = "send" /\ parts = 0
  /\ pc' = "status" /\ line' = <<>> /\ tries' = MaxReceive /\ ioError' = FALSE
  /\ \E r \in Responses \cup {Silence} :
       wire' = wire \o r.bytes /\ body' = r.body
  /\ UNCHANGED <<exVars, parts, connected, sendDone, chunked, bodyLength, want,
                 chunksSize, content, io, received, requests, cuts, split, leftover>>

-------------------------------------------------------------------------------
(* What remains of the received bytes once some are used.                   *)
Keep(rest) == received' = rest /\ UNCHANGED <<io, wire, parts, flags>>

Begins(l, kind) == l # <<>> /\ l[1].t = kind

(* ReceiveHeaderFromXIO: the line must begin like a status line.            *)
StatusLine(l, rest) ==
  \/ /\ Begins(l, "status")
     /\ NextLine("header") /\ Keep(rest)
     /\ UNCHANGED <<chunked, bodyLength, want, chunksSize, content>>
  \/ ~Begins(l, "status") /\ Failed

(* ReceiveContentInfoFromXIO: a line that is not empty is a header.         *)
HeaderLine(l, rest) ==
  /\ l # <<>>
  /\ bodyLength' = IF l[1].t = "length" THEN l[1].n ELSE bodyLength
  /\ chunked' = (chunked \/ l[1].t = "chunked")
  /\ NextLine("header") /\ Keep(rest)
  /\ UNCHANGED <<want, chunksSize, content>>

(* ReadHTTPResponseBodyFromXIO after the empty line.  BUFFER_pre_build fails *)
(* when the buffer holds anything, or for lack of memory.                   *)
BodyBegins(l, rest) ==
  /\ l = <<>>
  /\ \/ /\ chunked /\ NextLine("chunk") /\ Keep(rest)
        /\ UNCHANGED <<chunked, bodyLength, want, chunksSize, content>>
     \/ /\ ~chunked /\ bodyLength = 0
        /\ Finished(content)
     \/ /\ ~chunked /\ bodyLength > 0 /\ content = <<>>
        /\ GoOn("body") /\ Keep(rest) /\ want' = bodyLength
        /\ content' = [i \in 1 .. bodyLength |-> Junk]
        /\ UNCHANGED <<tries, line, chunked, bodyLength, chunksSize>>
     \/ ~chunked /\ bodyLength > 0 /\ Failed

(* The length of a chunk: the buffer grows by as much, or is emptied.       *)
ChunkLine(l, rest) ==
  \/ /\ Begins(l, "size") /\ l[1].n > 0
     /\ \/ /\ GoOn("chunkData") /\ Keep(rest) /\ want' = l[1].n
           /\ content' = content \o [i \in 1 .. l[1].n |-> Junk]
           /\ UNCHANGED <<tries, line, chunked, bodyLength, chunksSize>>
        \/ FailedWith(<<>>)
  \/ /\ Begins(l, "size") /\ l[1].n = 0
     /\ GoOn("lastEnd") /\ Keep(rest) /\ want' = 2
     /\ UNCHANGED <<tries, line, chunked, bodyLength, chunksSize, content>>
  \/ ~Begins(l, "size") /\ Failed

(* readLine: the line ends at the first CR received.  A LF is taken with it *)
(* when it is there already.                                                *)
AfterLine(n) ==
  IF n < Len(received) /\ received[n + 1] = LF
  THEN SubSeq(received, n + 2, Len(received))
  ELSE SubSeq(received, n + 1, Len(received))

ReadLine ==
  /\ pc \in Lines /\ ~ioError
  /\ \E n \in 1 .. Len(received) :
       /\ received[n] = CR /\ \A m \in 1 .. n - 1 : received[m] # CR
       /\ LET l == line \o SubSeq(received, 1, n - 1) IN
          \/ pc = "status" /\ StatusLine(l, AfterLine(n))
          \/ pc = "header" /\ (HeaderLine(l, AfterLine(n)) \/ BodyBegins(l, AfterLine(n)))
          \/ pc = "chunk" /\ ChunkLine(l, AfterLine(n))

(* No CR yet: what there is belongs to the line.                            *)
ReadOn ==
  /\ pc \in Lines /\ ~ioError
  /\ \A n \in 1 .. Len(received) : received[n] # CR
  /\ \/ /\ tries > 0 /\ Spend
        /\ line' = line \o received /\ received' = <<>>
        /\ UNCHANGED <<exVars, pc, parts, flags, io, wire, chunked, bodyLength,
                       want, chunksSize, content, httpHistory>>
     \/ tries <= 0 /\ Failed

ReadFails == pc \in Lines /\ ioError /\ Failed

(* conn_receive waits until all the bytes wanted are there, for ever if     *)
(* need be.  readChunk takes its -1 for a length and calls it again.        *)
ReadSpins ==
  /\ pc \in Data /\ ioError
  /\ GoOn("spin")
  /\ UNCHANGED <<tries, parts, flags, reading, network>>

Taken == SubSeq(received, 1, want)
After == SubSeq(received, want + 1, Len(received))

(* Mutant: each chunk is written to the front of the buffer.                *)
Filled_Front ==
  [i \in 1 .. Len(content) |-> IF i <= want THEN Taken[i] ELSE content[i]]

(* The bytes go into the buffer behind those of the chunks before.          *)
Filled ==
  [i \in 1 .. Len(content) |->
     IF i > chunksSize /\ i <= chunksSize + want THEN Taken[i - chunksSize] ELSE content[i]]

ReadData ==
  /\ pc \in Data /\ ~ioError /\ Len(received) >= want
  /\ \/ /\ pc = "body"
        /\ Finished(Filled)
     \/ /\ pc = "chunkData"
        /\ content' = Filled /\ chunksSize' = chunksSize + want /\ want' = 2
        /\ GoOn("chunkEnd") /\ Keep(After)
        /\ UNCHANGED <<tries, line, chunked, bodyLength>>
     \/ /\ pc = "chunkEnd" /\ Taken = End
        /\ NextLine("chunk") /\ Keep(After)
        /\ UNCHANGED <<chunked, bodyLength, want, chunksSize, content>>
     \/ pc = "chunkEnd" /\ Taken # End /\ Failed
     \/ /\ pc = "lastEnd" /\ Taken = End
        /\ Finished(content)
     \/ pc = "lastEnd" /\ Taken # End /\ FailedWith(<<>>)

-------------------------------------------------------------------------------
(* HTTPAPIEX_Destroy                                                        *)
DestroyHandle ==
  /\ Destroy
  /\ pc' = IF k = 2 THEN "close" ELSE pc
  /\ UNCHANGED <<tries, parts, flags, reading, network, httpHistory>>

(* The io is destroyed and the connection with it.                          *)
CloseDone ==
  /\ Closed
  /\ pc' = "none" /\ connected' = FALSE /\ io' = "closed" /\ wire' = <<>>
  /\ received' = <<>>

(* HTTPAPI_CloseConnection: xio_close fails, or closes at once, or later.   *)
Close ==
  /\ pc = "close" /\ ioError' = FALSE
  /\ \/ CloseDone /\ UNCHANGED tries
     \/ /\ connected /\ io = "open"
        /\ pc' = "closing" /\ io' = "closing" /\ tries' = MaxClose
        /\ UNCHANGED <<exVars, connected, wire, received>>
  /\ UNCHANGED <<parts, sendDone, reading, httpHistory>>

Closing ==
  /\ pc = "closing"
  /\ \/ (~connected \/ tries < 0 \/ ioError) /\ CloseDone /\ UNCHANGED tries
     \/ /\ connected /\ tries >= 0 /\ ~ioError
        /\ Spend
        /\ UNCHANGED <<exVars, pc, connected, io, wire, received>>
  /\ UNCHANGED <<ioError, parts, sendDone, reading, httpHistory>>

-------------------------------------------------------------------------------
(* The steps of the thread inside a call.                                   *)
HttpThread ==
  \/ Initialize \/ Create \/ Skip \/ Start
  \/ Open \/ Opening \/ Send \/ Sending \/ Sent
  \/ ReadLine \/ ReadOn \/ ReadFails \/ ReadSpins \/ ReadData
  \/ Close \/ Closing

HttpNext == Request \/ DestroyHandle \/ HttpThread \/ Report

(* Everything runs on the caller's thread, which is scheduled.              *)
HttpSpec == HttpInit /\ [][HttpNext]_apiVars /\ WF_apiVars(HttpThread)

-------------------------------------------------------------------------------
(* SRS_HTTPAPI_COMPACT_21_050: what a request that returns OK puts in        *)
(* responseContent is the body of the response, of this execution and of no *)
(* other, however the network cuts it and whatever failed before.  It is     *)
(* not when a CR and its LF come apart, nor when a retry finds the chunks of *)
(* the attempt before in the buffer.                                        *)
BodyIsExact ==
  /\ []HttpTypeOK
  /\ [][step = "execute" /\ step' = "idle" => content' = body \/ split \/ leftover]_apiVars

(* The same claim where it fails, the two cases apart.  A CR and its LF that *)
(* come in two reads: the LF becomes an empty line (httpapi_compact.c:557), *)
(* which ends the headers before the length of the body was seen.           *)
BodyDespiteCuts ==
  [][step = "execute" /\ step' = "idle" => content' = body \/ leftover]_apiVars

(* A request that httpapiex.c retries after its body was read in part: the  *)
(* new chunks are appended to the old (httpapi_compact.c:1106).             *)
BodyDespiteRetry ==
  [][step = "execute" /\ step' = "idle" => content' = body \/ split]_apiVars

(* SRS_HTTPAPI_COMPACT_21_078, 080, 082 and 085: the waits are bounded, so a *)
(* request ends, unless it waits for a body (conn_receive counts no tries)  *)
(* or the io fails while it does (readChunk never returns).                 *)
WaitsEnd == step = "execute" ~> (step # "execute" \/ pc \in {"spin"} \cup Data)

(* httpapi_compact.c:604, "read content with specified length [...] returns  *)
(* -1 in case of error", and 1049: a body that cannot be read ends the      *)
(* request with HTTPAPI_READ_DATA_FAILED.                                   *)
FailureIsReported == pc \in Data /\ ioError ~> step # "execute"

================================================================================
