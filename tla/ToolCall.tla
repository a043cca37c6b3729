------------------------------ MODULE ToolCall ------------------------------
(***************************************************************************)
(* One tool call, from the command line of capwrap to the text it prints.  *)
(*                                                                         *)
(*   capwrap (cmd/capwrap/main.go)    typed arguments from the flags       *)
(*     -> tool socket ->                                                   *)
(*   Ward (cmd/ward/toolserver.go)    validates the bytes, forwards them   *)
(*     -> Ward's stdout ->                                                 *)
(*   keeperd (dispatch.go, internal/capabilities)   decides and executes   *)
(*     -> Ward's stdin, tool socket -> capwrap, which prints the result    *)
(*                                                                         *)
(* Everything that travels is the bytes of MusCodec.  How calls of several *)
(* tools interleave is the subject of CapabilityCalls; here is one call    *)
(* and what becomes of its data.                                           *)
(***************************************************************************)
EXTENDS CapabilityTypes

CONSTANTS
  Calls,         (* command lines, and what other clients send to the socket *)
  Grants,        (* what the agent's ACL may hold for the capability        *)
  Registered,    (* capabilities that keeperd has an implementation of      *)
  Samples,       (* type -> values a result may have                        *)
  PageTexts,     (* what Chrome may read from a page                        *)
  Links,         (* text -> the host and the path url.Parse finds in it     *)
  AbsolutePaths, UpwardPaths,  (* texts that start with /, or contain ..    *)
  MaxRequest,    (* what the Ward reads from the tool socket (256 KiB)      *)
  MaxDetail,     (* limit of an error detail (1024)                         *)
  SeqNo          (* the number the Ward gives to the call                   *)

(* What is wrapped around so many bytes still leaves a length that is an   *)
(* int.                                                                    *)
Fits(n) == n + 6 * MaxVarintBytes + 8 \in Words

(* The limits of the code: 256 and 1024 bytes, 256 KiB and 4 MiB, and two  *)
(* bytes are enough to tell names apart.                                   *)
ASSUME LimitAssumption ==
  /\ MaxIDLen >= 2 /\ Len(GeneratedCapabilityInfoRegistry) < 4 * Base * Base
  /\ MaxRequest \in Nat /\ MaxRequest + 2 * MaxVarintBytes <= MaxPayloadBytes
  /\ MaxPayloadBytes < 2 ^ (Width - 1) /\ Fits(MaxPayloadBytes)
  /\ MaxDetail \in Nat \ {0} /\ Fits(MaxDetail) /\ SeqNo \in Words

VARIABLES
  call,      (* who calls, and with what                                    *)
  tool,      (* "starting", "waiting", "ok", "failed"                       *)
  request,   (* what the tool wrote to the socket                           *)
  ward,      (* the Ward's handler: "idle", "reading", "waiting", "closed"  *)
  aborted,   (* the kind of failure the running prompt was aborted with     *)
  frame,     (* the request on the Ward's stdout                            *)
  executed,  (* what the capability was run with                            *)
  verdict,   (* keeperd's Response                                          *)
  reply,     (* the response on the Ward's stdin                            *)
  answer,    (* what the Ward wrote to the socket                           *)
  shown,     (* what the tool prints                                        *)
  late,      (* the 60 s of the tool's connection are over                  *)
  file       (* the file that Filesystem_File_Write writes to               *)

vars == <<call, tool, request, ward, aborted, frame, executed, verdict, reply,
          answer, shown, late, file>>

None == [none |-> TRUE]

-----------------------------------------------------------------------------
(* Names and codes are texts; here a name is its place in a list.          *)

Text(i) == <<i \div (2 * Base), i % (2 * Base)>>
Codes == <<"capability_denied", "fs_error", "unavailable", "chrome_error",
           "bad_request", "not_found", "loop_detected", "schema_invalid",
           "pipe_error", "timeout", "decode_error">>
Code(name) == Text(CHOOSE i \in DOMAIN Codes : Codes[i] = name)
Ones(n) == [i \in 1..n |-> 1]
Short == <<1>>
Mentions(text) == <<1>> \o text
Named(text) == {c \in Capability : Text(c) = text}

Invoke == 0
Schema == 1
MsgType_CapabilityRequest == 1
MsgType_CapabilityResponse == 2
Agent == <<1>>
Keeper == <<2>>

OK(data) == [ok |-> TRUE, data |-> data, code |-> <<>>, detail |-> <<>>]
Refusal(code, detail) ==
  [ok |-> FALSE, data |-> <<>>, code |-> Code(code), detail |-> detail]
DeniedResponse(detail) == Refusal("capability_denied", detail)

-----------------------------------------------------------------------------
(* Faulty variants.                                                        *)

(* A detail of the very length that is allowed is refused.                 *)
UnmarshalResponseTight(r) ==
  Then(ReadBool(r), LAMBDA ok :
  Then(ReadBytes(ok.rest), LAMBDA data :
  Then(ReadString(data.rest, MaxIDLen), LAMBDA code :
  Then(ReadString(code.rest, MaxDetail - 1), LAMBDA detail :
    Read([ok |-> ok.val, data |-> data.val, code |-> code.val, detail |-> detail.val],
         detail.rest)))))

(* The file is opened with O_TRUNC also to append.                         *)
TruncatedAlways(args, old) == <<>>

(* The deadline is set when the Ward begins to answer.                     *)
DeadlineOfAnswer ==
  /\ tool = "waiting" /\ ~late /\ ward = "closed"
  /\ late' = TRUE /\ tool' = "failed"
  /\ UNCHANGED <<call, request, ward, aborted, frame, executed, verdict, reply, answer,
                 shown, file>>

-----------------------------------------------------------------------------
(* The payloads (internal/capabilities/toolproto.go, capability.go).       *)

MarshalCapabilityRequest(p) ==
  AppendVarint(AppendString(<<>>, p.capability), Len(p.args)) \o p.args

UnmarshalCapabilityRequest(r) ==
  Then(ReadString(r, MaxIDLen), LAMBDA name :
  Then(ReadBytes(name.rest), LAMBDA args :
    Read([capability |-> name.val, args |-> args.val], args.rest)))

MarshalToolRequest(p) ==
  AppendVarint(AppendString(<<>>, p.capability) \o <<p.mode>>, Len(p.args)) \o p.args

UnmarshalToolRequest(r) ==
  Then(ReadString(r, MaxIDLen), LAMBDA name :
  Then(Take(name.rest, 1), LAMBDA mode :
  Then(ReadBytes(mode.rest), LAMBDA args :
    Read([capability |-> name.val, mode |-> mode.val[1], args |-> args.val], args.rest))))

MarshalResponse(p) ==
  AppendString(AppendString(
    AppendVarint(<<IF p.ok THEN 1 ELSE 0>>, Len(p.data)) \o p.data, p.code), p.detail)

(* The limits of the two texts are the reader's only: a detail that is     *)
(* longer is written, and makes the whole response unreadable.             *)
UnmarshalResponse(r) ==
  Then(ReadBool(r), LAMBDA ok :
  Then(ReadBytes(ok.rest), LAMBDA data :
  Then(ReadString(data.rest, MaxIDLen), LAMBDA code :
  Then(ReadString(code.rest, MaxDetail), LAMBDA detail :
    Read([ok |-> ok.val, data |-> data.val, code |-> code.val, detail |-> detail.val],
         detail.rest)))))

Frame(type, from, to, payload) ==
  WriteFrame([version |-> 0, type |-> type, from |-> from, to |-> to, seq |-> SeqNo,
              payloadLen |-> 0], payload)

-----------------------------------------------------------------------------
(* capwrap: flags to typed values.  A command line is a sequence of flags  *)
(* and words.  A word has its text, and the values it stands for in the    *)
(* types that accept it.                                                   *)

True == [text |-> <<1>>, as |-> [bool |-> TRUE]]

IsFlag(t) == "flag" \in DOMAIN t
HasOwnWord(t) == IsFlag(t) /\ "word" \in DOMAIN t      (* --name=word *)

(* A flag without a word of its own takes the next argument, unless that   *)
(* is a flag, and means true then.                                         *)
TakesNext(argv, i) ==
  IsFlag(argv[i]) /\ ~HasOwnWord(argv[i]) /\ i < Len(argv) /\ ~IsFlag(argv[i + 1])

WordOf(argv, i) ==
  IF HasOwnWord(argv[i]) THEN argv[i].word
  ELSE IF TakesNext(argv, i) THEN argv[i + 1].word ELSE True

WellFormed(argv) ==
  \A i \in DOMAIN argv :
    IF IsFlag(argv[i]) THEN argv[i].flag # "" ELSE i > 1 /\ TakesNext(argv, i - 1)

FlagsNamed(argv, n) == {i \in DOMAIN argv : IsFlag(argv[i]) /\ argv[i].flag = n}
Given(argv) == {argv[i].flag : i \in {j \in DOMAIN argv : IsFlag(argv[j])}}

(* Of a flag that is repeated the last one counts.                         *)
RawArg(argv, n) == WordOf(argv, Max(FlagsNamed(argv, n)))

Accepts(f, w) ==
  IF f.type = "string" THEN f.enum = <<>> \/ \E i \in DOMAIN f.enum : w.text = <<i>>
  ELSE f.type \in DOMAIN w.as

(* The values take a detour through JSON.                                  *)
CoerceFieldValue(f, w) == IF f.type = "string" THEN ThroughJSON(w.text) ELSE w.as[f.type]

Buildable(c, argv) ==
  /\ c \in Capability
  /\ WellFormed(argv)
  /\ Given(argv) \subseteq {Info(c).args[i].name : i \in DOMAIN Info(c).args}
  /\ \A i \in DOMAIN Info(c).args :
       LET f == Info(c).args[i] IN
       IF f.name \in Given(argv) THEN Accepts(f, RawArg(argv, f.name)) ELSE ~f.required

(* A field that is not given has the zero value of its type: the default   *)
(* of its schema is text for the reader.                                   *)
TypedArgs(c, argv) ==
  [i \in DOMAIN Info(c).args |->
    LET f == Info(c).args[i] IN
    IF f.name \in Given(argv) THEN CoerceFieldValue(f, RawArg(argv, f.name))
    ELSE ZeroValue(f.type)]

-----------------------------------------------------------------------------
(* What the callers can be.  The values are what variables of Go can hold. *)
IsWord(w) ==
  IsText(ThroughJSON(w.text)) /\ \A t \in DOMAIN w.as : IsOf(t, w.as[t])

IsLine(argv) ==
  /\ argv = [i \in 1..Len(argv) |-> argv[i]] /\ Len(argv) \in Nat
  /\ \A i \in DOMAIN argv : IsFlag(argv[i]) => IsWord(WordOf(argv, i))

IsCall(c) ==
  \/ /\ c.by = "capwrap" /\ IsLine(c.argv)
     /\ Buildable(c.cap, c.argv) => Len(MarshalArgs(c.cap, TypedArgs(c.cap, c.argv))) \in Words
  \/ c.by = "help" /\ c.cap \in {0} \cup Capability
  \/ c.by = "other" /\ c.bytes \in Seq(Bytes)

ASSUME CallAssumption == \A c \in Calls : IsCall(c)

-----------------------------------------------------------------------------
(* The capabilities.  An outcome is the Response, the value that its data   *)
(* is to carry, and the file afterwards.                                   *)

Outcome(resp, value, f) == [resp |-> resp, value |-> value, file |-> f]
Denied(detail) == {Outcome(DeniedResponse(detail), None, file)}
Fails(code, details) == {Outcome(Refusal(code, d), None, file) : d \in details}

(* filesystem.go.  The path is joined to the scope's directory and cleaned; *)
(* behind the first three tests it can only be outside of a scope that is  *)
(* the root directory, whose prefix would be two slashes.  Other processes *)
(* may have made a link of any part of it.                                 *)
Written(args, old) == IF args[3] THEN old \o args[2] ELSE args[2]
Truncated(args, old) == IF args[3] THEN old ELSE <<>>

WriteOutcomes(args, scope) ==
  LET path == args[1]
      content == args[2]
      result == <<Mentions(path), Len(content)>>
      data == MarshalResult(Filesystem_File_Write.result, result)
      partly == {Truncated(args, file) \o SubSeq(content, 1, k) : k \in 0..(Len(content) - 1)} IN
  IF path = <<>> \/ path \in AbsolutePaths \/ path \in UpwardPaths THEN Denied(Short)
  ELSE IF scope.root = "" THEN Denied(Short)
  ELSE IF scope.root = "/" THEN Denied(Mentions(path))
  ELSE Denied(Mentions(path))                          (* a link out of the scope *)
       \cup Fails("fs_error", {Mentions(path)})        (* MkdirAll, OpenFile *)
       \cup {Outcome(Refusal("fs_error", Mentions(path)), None, f) : f \in partly}
       \cup {Outcome(OK(data), result, Written(args, file))}

(* browser.go.  A host is the sequence of its labels.                      *)
AllowsURL(scope, text) ==
  /\ text \in DOMAIN Links
  /\ LET url == Links[text] IN
     /\ url.host \in scope.domains \/ \E s \in scope.suffixes : IsSuffix(s, url.host)
     /\ scope.paths = {} \/ \E p \in scope.paths : IsPrefix(p, url.path)

ReadOutcomes(args, scope) ==
  LET url == args[1] IN
  IF url = <<>> THEN Denied(Short)
  ELSE IF ~AllowsURL(scope, url) THEN Denied(Mentions(url))
  ELSE Fails("unavailable", {Short})
       \cup Fails("chrome_error", {Ones(MaxDetail), Ones(MaxDetail + 1)})
       \cup {Outcome(OK(AppendString(<<>>, t)), t, file) : t \in PageTexts}

(* The values a result may have: every field in turn takes every sample.   *)
Records(fields) ==
  LET zeros == [i \in DOMAIN fields |-> ZeroValue(fields[i].type)] IN
  {zeros} \cup UNION {{[zeros EXCEPT ![i] = v] : v \in Samples[fields[i].type]}
                       : i \in DOMAIN fields}
Results(c) ==
  CASE Info(c).returns = "object" -> Records(Info(c).result)
    [] Info(c).returns = "list<object>" ->
         LET records == Records(Info(c).result) IN
         {<<>>} \cup {<<r>> : r \in records} \cup {<<r, r>> : r \in records}
    [] OTHER -> Samples[Info(c).returns]

(* Any other implementation answers with a value of its result type.       *)
OtherOutcomes(c) ==
  {Outcome(OK(EncodeResult(c, v)), v, file) : v \in Results(c)}

ASSUME ResultAssumption ==
  /\ Registered \subseteq Capability
  /\ \A type \in {"string", "int", "bool", "bytes", "list<list<string>>"} :
       \A v \in Samples[type] : IsOf(type, v)
  /\ \A c \in Registered : \A v \in Results(c) : Fits(Len(EncodeResult(c, v)))
  /\ \A t \in PageTexts : IsText(t) /\ Fits(Len(t))

Outcomes(c, args, scope) ==
  LET read == UnmarshalArgs(c, args) IN
  CASE Info(c) = Filesystem_File_Write ->
         IF read.ok THEN WriteOutcomes(read.val, scope) ELSE Denied(Short)
    [] Info(c) = Browser_Page_Read ->
         IF read.ok THEN ReadOutcomes(read.val, scope) ELSE Denied(Short)
    [] OTHER -> OtherOutcomes(c)

-----------------------------------------------------------------------------
Init ==
  /\ call \in Calls
  /\ tool = "starting" /\ ward = "idle" /\ late = FALSE
  /\ request = <<>> /\ frame = <<>> /\ reply = <<>> /\ answer = <<>>
  /\ aborted = "" /\ executed = None /\ verdict = None /\ shown = None
  /\ file = <<1>>

-----------------------------------------------------------------------------
(* capwrap starts.                                                         *)

Connect(bytes) ==
  /\ tool' = "waiting" /\ request' = bytes /\ ward' = "reading"
  /\ UNCHANGED <<call, aborted, frame, executed, verdict, reply, answer, shown, late, file>>

Invocation(c, argv) ==
  MarshalToolRequest([capability |-> Text(c), mode |-> Invoke,
                      args |-> MarshalArgs(c, TypedArgs(c, argv))])

Invoked ==
  /\ tool = "starting" /\ call.by = "capwrap"
  /\ Buildable(call.cap, call.argv)
  /\ Connect(Invocation(call.cap, call.argv))

(* --help                                                                  *)
AskForSchema ==
  /\ tool = "starting" /\ call.by = "help"
  /\ Connect(MarshalToolRequest([capability |-> Text(call.cap), mode |-> Schema, args |-> <<>>]))

(* Any other program in the container.                                     *)
OtherClient ==
  /\ tool = "starting" /\ call.by = "other"
  /\ Connect(call.bytes)

(* The flags are wrong, or no Ward listens.                                *)
GiveUp ==
  /\ tool = "starting"
  /\ tool' = "failed"
  /\ UNCHANGED <<call, request, ward, aborted, frame, executed, verdict, reply, answer,
                 shown, late, file>>

-----------------------------------------------------------------------------
(* The Ward's handler.                                                     *)

(* It closes the connection after it wrote; the connection's deadline has  *)
(* passed when the tool's has.  Closing a socket with unread bytes in it   *)
(* resets it, and the tool gets an error in place of the answer.           *)
Finish(resp) ==
  /\ ward' = "closed"
  /\ answer' = IF late \/ Len(request) > MaxRequest THEN <<>> ELSE MarshalResponse(resp)
  /\ UNCHANGED <<call, tool, request, executed, verdict, shown, late, file>>

Received == UnmarshalToolRequest(SubSeq(request, 1, Min({Len(request), MaxRequest})))

AbortPrompt(kind) == aborted' = kind

RejectMalformed ==
  /\ ward = "reading"
  /\ ~Panics(Received)
  /\ Received.ok => Received.val.capability = <<>>
  /\ AbortPrompt("malformed_tool_call")
  /\ Finish(Refusal("bad_request", Short))
  /\ UNCHANGED <<frame, reply>>

AnswerSchema ==
  /\ ward = "reading"
  /\ Received.ok /\ Received.val.capability # <<>> /\ Received.val.mode = Schema
  /\ Finish(IF Named(Received.val.capability) = {} THEN Refusal("not_found", Short)
            ELSE OK(AppendString(<<>>, Received.val.capability)))
  /\ UNCHANGED <<aborted, frame, reply>>

ValidToolArgs(p) ==
  \A c \in Named(p.capability) :
    LET args == UnmarshalArgs(c, p.args) IN args.ok /\ args.rest = <<>>

ToExecute ==
  ward = "reading" /\ Received.ok /\ Received.val.capability # <<>> /\ Received.val.mode # Schema

(* A length in the request or in its arguments that nothing has room for:  *)
(* the goroutine of the handler panics, and that is the end of the Ward.   *)
Panicking ==
  \/ ward = "reading" /\ Panics(Received)
  \/ ToExecute /\ \E c \in Named(Received.val.capability) : Panics(UnmarshalArgs(c, Received.val.args))

WardPanics ==
  /\ Panicking
  /\ ward' = "closed"
  /\ UNCHANGED <<call, tool, request, aborted, frame, executed, verdict, reply, answer, shown, late, file>>

(* The same call with the same arguments once too often.                   *)
DetectLoop ==
  /\ ToExecute
  /\ AbortPrompt("loop_detected")
  /\ Finish(Refusal("loop_detected", Short))
  /\ UNCHANGED <<frame, reply>>

RejectArguments ==
  /\ ToExecute /\ ~ValidToolArgs(Received.val) /\ ~Panicking
  /\ AbortPrompt("schema_invalid")
  /\ Finish(Refusal("schema_invalid", Short))
  /\ UNCHANGED <<frame, reply>>

Forward ==
  /\ ToExecute /\ ValidToolArgs(Received.val)
  /\ ward' = "waiting"
  /\ frame' = Frame(MsgType_CapabilityRequest, Agent, Keeper,
                    MarshalCapabilityRequest(Received.val))
  /\ UNCHANGED <<call, tool, request, aborted, executed, verdict, reply, answer, shown, late, file>>

ForwardFails ==
  /\ ToExecute /\ ValidToolArgs(Received.val)
  /\ Finish(Refusal("pipe_error", Short))
  /\ UNCHANGED <<aborted, frame, reply>>

-----------------------------------------------------------------------------
(* keeperd.                                                                *)

Requested == UnmarshalCapabilityRequest(ReadFrame(frame).val.payload)

Respond(resp) ==
  /\ verdict' = resp
  /\ reply' = Frame(MsgType_CapabilityResponse, Keeper, Agent, MarshalResponse(resp))
  /\ frame' = <<>>
  /\ UNCHANGED <<call, tool, request, ward, aborted, answer, shown, late>>

Executable(name) == {c \in Registered : Text(c) = name}

(* Undecodable, not granted (None), or not registered.                     *)
Deny ==
  /\ frame # <<>>
  /\ Requested.ok /\ None \notin Grants => Executable(Requested.val.capability) = {}
  /\ Respond(DeniedResponse(Short))
  /\ UNCHANGED <<executed, file>>

Execute ==
  /\ frame # <<>> /\ Requested.ok
  /\ \E c \in Executable(Requested.val.capability), scope \in Grants \ {None} :
       \E o \in Outcomes(c, Requested.val.args, scope) :
         /\ executed' = [capability |-> c, args |-> UnmarshalArgs(c, Requested.val.args).val,
                         result |-> o.value]
         /\ file' = o.file
         /\ Respond(o.resp)

-----------------------------------------------------------------------------
(* The answer comes back.                                                  *)

TakeReply ==
  /\ ward = "waiting" /\ ReadFrame(reply).ok
  /\ LET resp == UnmarshalResponse(ReadFrame(reply).val.payload) IN
     Finish(IF resp.ok THEN resp.val ELSE Refusal("decode_error", Short))
  /\ reply' = <<>>
  /\ UNCHANGED <<aborted, frame>>

(* keeperd does not ask how long the frame is, but the Ward's reader does, *)
(* and whatever it finds wrong with a frame ends the Ward.                 *)
ReplyTooLong ==
  /\ ward = "waiting" /\ reply # <<>> /\ ~ReadFrame(reply).ok
  /\ ward' = "closed" /\ reply' = <<>>
  /\ UNCHANGED <<call, tool, request, aborted, frame, executed, verdict, answer, shown, late, file>>

(* The Ward shuts down, or keeperd took 60 s.                              *)
GiveUpWaiting ==
  /\ ward = "waiting"
  /\ Finish(Refusal("timeout", Short))
  /\ UNCHANGED <<aborted, frame, reply>>

(* A string is printed as it is, everything else as JSON.                  *)
Printable(resp) ==
  IF call.by = "capwrap" /\ Info(call.cap).returns # "string"
  THEN DecodeResultToJSON(call.cap, resp.data)
  ELSE ReadString(resp.data, MaxPayloadBytes)

ReadAnswer ==
  /\ tool = "waiting" /\ ward = "closed" /\ ~late
  /\ LET resp == UnmarshalResponse(answer)
         out == Printable(resp.val) IN
     /\ tool' = IF resp.ok /\ resp.val.ok /\ out.ok THEN "ok" ELSE "failed"
     /\ shown' = IF ~resp.ok THEN None
                 ELSE IF ~resp.val.ok THEN resp.val
                 ELSE IF out.ok THEN [ok |-> TRUE, value |-> out.val] ELSE None
  /\ UNCHANGED <<call, request, ward, aborted, frame, executed, verdict, reply, answer, late, file>>

Start == Invoked \/ AskForSchema \/ OtherClient \/ GiveUp

Deadline ==
  /\ tool = "waiting" /\ ~late
  /\ late' = TRUE /\ tool' = "failed"
  /\ UNCHANGED <<call, request, ward, aborted, frame, executed, verdict, reply, answer,
                 shown, file>>

Next ==
  \/ Start
  \/ RejectMalformed \/ AnswerSchema \/ DetectLoop \/ RejectArguments \/ WardPanics
  \/ Forward \/ ForwardFails
  \/ Deny \/ Execute
  \/ TakeReply \/ ReplyTooLong \/ GiveUpWaiting
  \/ ReadAnswer \/ Deadline

(* The program runs, and time passes.  Nothing is assumed of the others.   *)
Fairness == WF_vars(Start) /\ WF_vars(Deadline)

Spec == Init /\ [][Next]_vars /\ Fairness

-----------------------------------------------------------------------------
(* A frame on a pipe is read as it was written and not before its last     *)
(* byte is there; the router's charge for it (HeaderSize and the payload)  *)
(* is its length; and the response bears the number of the request.  Only  *)
(* a response whose payload is over the limit is not read at all.          *)
FramesDelimited ==
  \A bytes \in {frame, reply} \ {<<>>} :
    /\ \A k \in 0..(Len(bytes) - 1) : ~ReadFrame(SubSeq(bytes, 1, k)).ok
    /\ ReadFrame(bytes).ok =>
         /\ ReadFrame(bytes \o <<1>>).rest = <<1>>
         /\ LET header == ReadFrame(bytes).val.header IN
            header.seq = SeqNo /\ HeaderSize(header) + header.payloadLen = Len(bytes)
    /\ ~ReadFrame(bytes).ok =>
         bytes = reply /\ Len(MarshalResponse(verdict)) > MaxPayloadBytes

(* A capability runs with the values that were typed, field by field,      *)
(* after two codecs, the Ward's validation and keeperd's decoding; also    *)
(* with the words that need the last byte of a varint.                     *)
ExecutedAsTyped ==
  executed # None /\ call.by = "capwrap" =>
    /\ executed.capability = call.cap
    /\ executed.args = TypedArgs(call.cap, call.argv)

(* A call that capwrap accepted is never what a prompt is aborted for, nor *)
(* what the Ward panics over, except when it is longer than the Ward reads. *)
OnlyTooLongIsInvalid ==
  call.by # "other" /\ (aborted \in {"malformed_tool_call", "schema_invalid"} \/ Panicking) =>
    Len(request) > MaxRequest

(* The value of a result without what has no line in MarshalMUS.           *)
Carried(c, v) ==
  LET fields == Info(c).result
      item(x) == [i \in DOMAIN fields |->
                   IF OnTheWire(fields[i]) THEN x[i] ELSE ZeroValue(fields[i].type)] IN
  CASE Info(c).returns = "object" -> item(v)
    [] Info(c).returns = "list<object>" -> [i \in DOMAIN v |-> item(v[i])]
    [] OTHER -> v

(* A result is shown only of a call that was carried out, and is what the  *)
(* capability returned, text byte for byte where the result is a string.   *)
(* Two things are lost on the way: the fields that are lists, although the *)
(* schemas promise them, and in objects and cells the bytes that are no    *)
(* UTF-8.                                                                  *)
ResultShown ==
  shown # None /\ shown.ok /\ call.by = "capwrap" =>
    /\ executed # None
    /\ LET v == Carried(call.cap, executed.result) IN
       shown.value = IF Info(call.cap).returns = "string" THEN v ELSE ResultToJSON(call.cap, v)

(* A failure is shown as keeperd or the Ward stated it.  keeperd's own is  *)
(* replaced by decode_error exactly when its detail is over the limit of   *)
(* the reader, and nothing the Ward says of itself is taken for keeperd's. *)
FailureShown ==
  shown # None /\ ~shown.ok =>
    CASE shown.code = Code("decode_error") -> verdict # None /\ Len(verdict.detail) > MaxDetail
      [] shown.code \in {Code(c) : c \in {"bad_request", "not_found", "loop_detected",
                                        "schema_invalid", "pipe_error"}} -> executed = None
      [] shown.code = Code("timeout") -> ward = "closed" /\ ~late
      [] OTHER -> shown = verdict

(* The file is as it was unless the write was allowed; a write that        *)
(* appends never loses what was there, also when it fails half way.        *)
FileKept ==
  file # <<1>> =>
    /\ executed # None /\ Info(executed.capability) = Filesystem_File_Write
    /\ verdict.code # Code("capability_denied")
    /\ executed.args[3] => IsPrefix(<<1>>, file)
    /\ verdict.ok => IsSuffix(executed.args[2], file)

(* The tool ends, whatever becomes of the Ward and keeperd.                *)
ToolEnds == <>(tool \in {"ok", "failed"})
=============================================================================
