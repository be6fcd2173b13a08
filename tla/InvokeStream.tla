---------------------------- MODULE InvokeStream ----------------------------
(***************************************************************************)
(* A streaming call through Amazon Bedrock's InvokeModelWithResponseStream *)
(* (internal/provider/bedrock_invoke.go): the pump goroutine that turns    *)
(* SDK events into SSE frames, the io.Pipe it writes them to, and the body *)
(* the relay reads and closes.                                             *)
(*                                                                         *)
(* Four parties move independently.  Bedrock sends chunks, event kinds the *)
(* gateway does not know, and an end or an exception.  The SDK's reader    *)
(* goroutine holds one decoded event until the pump takes it.  The pump    *)
(* is blocked in pw.Write until the relay reads or closes.  The relay      *)
(* stops reading whenever it likes: at a terminal event, at a size limit,  *)
(* or because its client left.                                             *)
(*                                                                         *)
(* A chunk is its number; one Read takes one whole frame.                  *)
(***************************************************************************)
EXTENDS Naturals, Sequences

CONSTANT MaxChunks      (* how many chunks Bedrock sends at most           *)

ASSUME InvokeStreamAssumption == MaxChunks \in Nat

VARIABLES
    protocol,  \* of the provider's model: "anthropic" or "openai_chat"
    sdk,       \* the SDK's reader: "reading", "offering" or "ended"
    offered,   \* the event it offers on es.Events(): "chunk" or "unknown"
    chunks,    \* how many Bedrock has sent
    err,       \* es.Err()
    esClosed,  \* es.Close has been called
    pump,      \* where pumpInvokeStream is
    frame,     \* the frame its pw.Write is about
    pw,        \* the writing end: "open", "closed", or "broken" by an error
    prClosed,  \* the reading end is closed
    relay,     \* the reader: "reading", "closing", "closingEs" or "closed"
    got,       \* the frames it has read
    end        \* what its last Read said: "none", "eof" or "error"

bodyVars == <<protocol, sdk, offered, chunks, err, esClosed, pump, frame, pw,
              prClosed, relay, got, end>>

sdkVars   == <<sdk, offered, chunks, err>>
pipeVars  == <<pw, prClosed>>
relayVars == <<relay, got, end>>

(* The mid-stream exceptions; "other" is any other, or a broken transport. *)
Exception == {"throttling", "unavailable", "validation", "modelTimeout", "other"}

StreamErrorStatus(e) ==
    CASE e = "throttling"   -> 429
      [] e = "unavailable"  -> 503
      [] e = "validation"   -> 400
      [] e = "modelTimeout" -> 408
      [] OTHER              -> 500

Chunk(n)      == [kind |-> "chunk", n |-> n]
ErrorFrame(e) == [kind |-> "error", n |-> StreamErrorStatus(e)]
DoneFrame     == [kind |-> "done", n |-> 0]
NoFrame       == [kind |-> "none", n |-> 0]

(* Invoke has the stream, makes the pipe and starts the pump.              *)
BodyInit ==
    /\ protocol \in {"anthropic", "openai_chat"}
    /\ sdk = "reading" /\ offered = "chunk" /\ chunks = 0 /\ err = "none"
    /\ esClosed = FALSE
    /\ pump = "receiving" /\ frame = NoFrame
    /\ pw = "open" /\ prClosed = FALSE
    /\ relay = "reading" /\ got = <<>> /\ end = "none"

-----------------------------------------------------------------------------
(***************************************************************************)
(* Bedrock and the SDK's reader goroutine, external.                       *)
(***************************************************************************)
SendChunk ==
    /\ sdk = "reading" /\ ~esClosed /\ chunks < MaxChunks
    /\ sdk' = "offering" /\ offered' = "chunk" /\ chunks' = chunks + 1
    /\ UNCHANGED <<protocol, err, esClosed, pump, frame, pipeVars, relayVars>>

SendUnknown ==
    /\ sdk = "reading" /\ ~esClosed
    /\ sdk' = "offering" /\ offered' = "unknown"
    /\ UNCHANGED <<protocol, chunks, err, esClosed, pump, frame, pipeVars, relayVars>>

(* The stream ends, or an exception or a broken connection ends it.        *)
StreamEnds ==
    /\ sdk = "reading" /\ ~esClosed
    /\ sdk' = "ended"
    /\ err' \in {"none"} \union Exception
    /\ UNCHANGED <<protocol, offered, chunks, esClosed, pump, frame, pipeVars, relayVars>>

(* Once es.Close was called the reader gives up, without an error, also in *)
(* the middle of a read or of offering an event.                           *)
SdkStops ==
    /\ sdk # "ended" /\ esClosed
    /\ sdk' = "ended"
    /\ UNCHANGED <<protocol, offered, chunks, err, esClosed, pump, frame, pipeVars, relayVars>>

-----------------------------------------------------------------------------
(***************************************************************************)
(* pumpInvokeStream.                                                       *)
(***************************************************************************)

(* One turn of the range over es.Events(): anything but a chunk is skipped.*)
PumpReceive ==
    /\ pump = "receiving" /\ sdk = "offering"
    /\ sdk' = "reading"
    /\ IF offered = "chunk"
       THEN pump' = "writing" /\ frame' = Chunk(chunks)
       ELSE UNCHANGED <<pump, frame>>
    /\ UNCHANGED <<protocol, offered, chunks, err, esClosed, pipeVars, relayVars>>

(* The events are over: a frame to end with, or the plain close.           *)
PumpEventsOver_IgnoresErr ==
    /\ pump = "receiving" /\ sdk = "ended"
    /\ IF protocol = "openai_chat"
       THEN pump' = "writing" /\ frame' = DoneFrame
       ELSE pump' = "closing" /\ UNCHANGED frame
    /\ UNCHANGED <<protocol, sdkVars, esClosed, pipeVars, relayVars>>

PumpEventsOver_AlwaysServerError ==
    /\ pump = "receiving" /\ sdk = "ended"
    /\ \/ err # "none" /\ pump' = "writing" /\ frame' = ErrorFrame("other")
       \/ err = "none" /\ protocol = "openai_chat" /\ pump' = "writing" /\ frame' = DoneFrame
       \/ err = "none" /\ protocol # "openai_chat" /\ pump' = "closing" /\ UNCHANGED frame
    /\ UNCHANGED <<protocol, sdkVars, esClosed, pipeVars, relayVars>>

PumpEventsOver ==
    /\ pump = "receiving" /\ sdk = "ended"
    /\ \/ err # "none" /\ pump' = "writing" /\ frame' = ErrorFrame(err)
       \/ err = "none" /\ protocol = "openai_chat" /\ pump' = "writing" /\ frame' = DoneFrame
       \/ err = "none" /\ protocol # "openai_chat" /\ pump' = "closing" /\ UNCHANGED frame
    /\ UNCHANGED <<protocol, sdkVars, esClosed, pipeVars, relayVars>>

(* After a chunk the loop goes on; the last frame is followed by the close.*)
AfterWrite == IF frame.kind = "chunk" THEN "receiving" ELSE "closing"

(* pw.Write and the relay's Read meet.                                     *)
Transfer_OutOfOrder ==
    /\ pump = "writing" /\ relay = "reading" /\ ~prClosed
    /\ got' = <<frame>> \o got
    /\ pump' = AfterWrite
    /\ UNCHANGED <<protocol, sdkVars, esClosed, frame, pipeVars, relay, end>>

Transfer ==
    /\ pump = "writing" /\ relay = "reading" /\ ~prClosed
    /\ got' = Append(got, frame)
    /\ pump' = AfterWrite
    /\ UNCHANGED <<protocol, sdkVars, esClosed, frame, pipeVars, relay, end>>

(* pw.Write fails because the reader closed: the loop returns.  At the     *)
(* final frame the error is ignored, and the close follows.                *)
PumpWriteFails ==
    /\ pump = "writing" /\ prClosed
    /\ pump' = IF frame.kind = "chunk" THEN "returning" ELSE "closing"
    /\ UNCHANGED <<protocol, sdkVars, esClosed, frame, pipeVars, relayVars>>

(* pw.CloseWithError after an error frame, pw.Close otherwise.             *)
PumpClose ==
    /\ pump = "closing"
    /\ pw' = IF frame.kind = "error" THEN "broken" ELSE "closed"
    /\ pump' = "returning"
    /\ UNCHANGED <<protocol, sdkVars, esClosed, frame, prClosed, relayVars>>

(* The deferred es.Close.                                                  *)
PumpReturn ==
    /\ pump = "returning"
    /\ pump' = "gone"
    /\ esClosed' = TRUE
    /\ UNCHANGED <<protocol, sdkVars, frame, pipeVars, relayVars>>

-----------------------------------------------------------------------------
(***************************************************************************)
(* The relay, through invokeStreamBody.                                    *)
(***************************************************************************)

(* A Read of a pipe whose writing end is closed.                           *)
ReadEnd ==
    /\ relay = "reading" /\ pw # "open"
    /\ end' = IF pw = "closed" THEN "eof" ELSE "error"
    /\ relay' = "closing"
    /\ UNCHANGED <<protocol, sdkVars, esClosed, pump, frame, pipeVars, got>>

(* The relay has read enough.                                              *)
StopReading ==
    /\ relay = "reading"
    /\ relay' = "closing"
    /\ UNCHANGED <<protocol, sdkVars, esClosed, pump, frame, pipeVars, got, end>>

(* Close, first the pipe ...                                               *)
ClosePipe ==
    /\ relay = "closing"
    /\ prClosed' = TRUE
    /\ relay' = "closingEs"
    /\ UNCHANGED <<protocol, sdkVars, esClosed, pump, frame, pw, got, end>>

(* ... then the event stream.                                              *)
CloseEs_Forgotten ==
    /\ relay = "closingEs"
    /\ relay' = "closed"
    /\ UNCHANGED <<protocol, sdkVars, esClosed, pump, frame, pipeVars, got, end>>

CloseEs ==
    /\ relay = "closingEs"
    /\ esClosed' = TRUE
    /\ relay' = "closed"
    /\ UNCHANGED <<protocol, sdkVars, pump, frame, pipeVars, got, end>>

-----------------------------------------------------------------------------
Pump == PumpReceive \/ PumpEventsOver \/ PumpWriteFails \/ PumpClose \/ PumpReturn
Body == ClosePipe \/ CloseEs

BodyNext ==
    \/ SendChunk \/ SendUnknown \/ StreamEnds \/ SdkStops
    \/ Pump \/ Transfer
    \/ ReadEnd \/ StopReading \/ Body

(***************************************************************************)
(* The pump, the SDK's reader told to stop, and a Close once begun are     *)
(* goroutines that run when they can.  Bedrock need not send anything, and *)
(* the relay need not read.                                                *)
(***************************************************************************)
BodyFairness == WF_bodyVars(Pump) /\ WF_bodyVars(SdkStops) /\ WF_bodyVars(Body)

BodySpec == BodyInit /\ [][BodyNext]_bodyVars /\ BodyFairness

-----------------------------------------------------------------------------
(***************************************************************************)
(* Properties.                                                             *)
(***************************************************************************)
Frame == [kind : {"chunk"}, n : Nat]
            \union {DoneFrame} \union {ErrorFrame(e) : e \in Exception}

BodyTypeOK ==
    /\ protocol \in {"anthropic", "openai_chat"}
    /\ sdk \in {"reading", "offering", "ended"}
    /\ offered \in {"chunk", "unknown"}
    /\ chunks \in 0..MaxChunks
    /\ err \in {"none"} \union Exception
    /\ esClosed \in BOOLEAN /\ prClosed \in BOOLEAN
    /\ pump \in {"receiving", "writing", "closing", "returning", "gone"}
    /\ frame \in Frame \union {NoFrame}
    /\ pw \in {"open", "closed", "broken"}
    /\ relay \in {"reading", "closing", "closingEs", "closed"}
    /\ got \in Seq(Frame)
    /\ end \in {"none", "eof", "error"}

(* The reader gets Bedrock's chunks from the first, in order, none twice   *)
(* and none left out, and after a [DONE] or an error frame nothing more    *)
(* (pumpInvokeStream: one blocking pw.Write per event).                    *)
ReadsWhatWasSent ==
    \A i \in DOMAIN got :
        /\ got[i].kind = "chunk" => got[i].n = i
        /\ got[i].kind # "chunk" => i = Len(got)

(* A Read that says EOF means that Bedrock ended the stream without an     *)
(* exception and that every chunk of it was read, [DONE] included in       *)
(* OpenAI's framing: only such a stream is billed as whole.                *)
CleanEndIsComplete ==
    end = "eof" =>
        /\ err = "none"
        /\ Len(got) = chunks + (IF protocol = "openai_chat" THEN 1 ELSE 0)
        /\ \A i \in 1..chunks : got[i] = Chunk(i)
        /\ protocol = "openai_chat" => got[Len(got)] = DoneFrame

(* A Read that fails means that the stream failed, that everything sent    *)
(* before was read, and that the client has been told, with the status of  *)
(* the exception (streamErrorStatus; the comment of pumpInvokeStream).     *)
FailureIsTold ==
    end = "error" =>
        /\ err # "none"
        /\ Len(got) = chunks + 1
        /\ got[Len(got)] = ErrorFrame(err)

(* However the relay ends, the pump and the SDK's reader end too, although *)
(* Bedrock may never send another byte (invokeStreamBody.Close: closing    *)
(* the pipe alone would leave a pump that waits for an event).             *)
NothingLeaks == (relay = "closed") ~> (pump = "gone" /\ sdk = "ended")
=============================================================================
