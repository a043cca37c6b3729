-------------------------- MODULE CapabilityTypes --------------------------
(***************************************************************************)
(* internal/capabilities/generated.go: the arguments and the results of    *)
(* the 54 capabilities, and how they are written and read.                 *)
(*                                                                         *)
(* A definition with a capability's name stands for everything that is     *)
(* generated for it: its schema, its entry in the registries, the struct   *)
(* of its arguments with MarshalMUS and UnmarshalMUS, and the structs of   *)
(* its result.  The arguments are listed in the order of the struct, which *)
(* is the order on the wire.  A record of values is a sequence in the same *)
(* order.                                                                  *)
(*                                                                         *)
(* A capability is known by its place in the sorted registry.              *)
(***************************************************************************)
EXTENDS MusCodec

CONSTANTS
  IllFormed,     (* bytes that are never part of UTF-8 text                 *)
  Replacement    (* what encoding/json writes in their place                *)

Field(n, t, required, enum) ==
  [name |-> n, type |-> t, required |-> required, enum |-> enum]
Req(n, t) == Field(n, t, TRUE, <<>>)
Opt(n, t) == Field(n, t, FALSE, <<>>)
OneOf(n, values) == Field(n, "string", TRUE, values)
OptOneOf(n, values) == Field(n, "string", FALSE, values)
F(n, t) == [name |-> n, type |-> t]

-----------------------------------------------------------------------------
(* The capabilities.                                                       *)

Browser_Form_Submit ==
  [args |-> <<Req("url", "string"), Req("fields", "list<object>"),
      Opt("submit_selector", "string")>>,
   returns |-> "object", result |-> <<
      F("final_url", "string"), F("status_code", "int"),
      F("page_text", "string")>>]

Browser_Link_List ==
  [args |-> <<Req("url", "string"), Opt("same_domain_only", "bool")>>,
   returns |-> "list<object>", result |-> <<
      F("text", "string"), F("href", "string"), F("rel", "string")>>]

Browser_Page_GetTitle ==
  [args |-> <<Req("url", "string")>>,
   returns |-> "object", result |-> <<
      F("title", "string"), F("description", "string"),
      F("canonical_url", "string"), F("status_code", "int")>>]

Browser_Page_Read ==
  [args |-> <<Req("url", "string"), Opt("timeout", "int"),
      OptOneOf("wait_for", <<"load", "domcontentloaded", "networkidle">>)>>,
   returns |-> "string", result |-> <<>>]

Browser_Page_Screenshot ==
  [args |-> <<Req("url", "string"), Opt("selector", "string"),
      Opt("full_page", "bool")>>,
   returns |-> "bytes", result |-> <<>>]

Calendar_Event_Create ==
  [args |-> <<
      Req("title", "string"), Req("start", "string"), Req("end", "string"),
      Opt("attendees", "list<string>"), Opt("location", "string"),
      Opt("description", "string")>>,
   returns |-> "object", result |-> <<
      F("event_id", "string"), F("html_link", "string")>>]

Calendar_Event_List ==
  [args |-> <<Req("start", "string"), Req("end", "string"),
      Opt("calendar_id", "string")>>,
   returns |-> "list<object>", result |-> <<
      F("id", "string"), F("title", "string"), F("start", "string"),
      F("end", "string"), F("location", "string"),
      F("attendees", "list<string>"), F("organizer", "string")>>]

Calendar_Event_Read ==
  [args |-> <<Req("event_id", "string")>>,
   returns |-> "object", result |-> <<
      F("id", "string"), F("title", "string"), F("start", "string"),
      F("end", "string"), F("location", "string"), F("description", "string"),
      F("attendees", "list<string>"), F("status", "string")>>]

Calendar_Slot_Find ==
  [args |-> <<Req("attendees", "list<string>"), Req("duration_minutes", "int"),
      Req("window_start", "string"), Req("window_end", "string"),
      Opt("working_hours_only", "bool")>>,
   returns |-> "list<object>", result |-> <<
      F("start", "string"), F("end", "string")>>]

Code_Lint_Run ==
  [args |-> <<
      OneOf("linter", <<"golangci-lint", "ruff", "eslint", "rubocop", "clippy">>),
      Opt("path", "string")>>,
   returns |-> "list<object>", result |-> <<
      F("file", "string"), F("line", "string"), F("severity", "string"),
      F("message", "string"), F("rule", "string")>>]

Code_Script_Exec ==
  [args |-> <<OneOf("interpreter", <<"bash", "python3", "node", "ruby">>),
      Req("script", "string"), Opt("timeout", "int")>>,
   returns |-> "object", result |-> <<
      F("stdout", "string"), F("stderr", "string"), F("exit_code", "int"),
      F("duration_ms", "string")>>]

Code_Test_Run ==
  [args |-> <<
      OneOf("framework", <<"go-test", "pytest", "jest", "rspec", "cargo-test">>),
      Opt("path", "string"), Opt("filter", "string")>>,
   returns |-> "object", result |-> <<
      F("passed", "int"), F("failed", "int"), F("skipped", "int"),
      F("output", "string")>>]

Database_Query_Exec ==
  [args |-> <<Req("source_id", "string"), Req("query", "string"),
      Opt("max_rows", "int")>>,
   returns |-> "object", result |-> <<
      F("columns", "list<string>"), F("rows", "list<list<string>>"),
      F("row_count", "int"), F("truncated", "bool")>>]

Database_Schema_Read ==
  [args |-> <<Req("source_id", "string"), Req("table", "string")>>,
   returns |-> "list<object>", result |-> <<
      F("column", "string"), F("type", "string"), F("nullable", "bool"),
      F("default", "string")>>]

Database_Table_List ==
  [args |-> <<Req("source_id", "string")>>,
   returns |-> "list<object>", result |-> <<
      F("name", "string"), F("row_count", "int"), F("size_bytes", "int")>>]

Document_Content_Append ==
  [args |-> <<Req("document_id", "string"), Req("content", "string")>>,
   returns |-> "object", result |-> <<
      F("document_id", "string"), F("revision_id", "string")>>]

Document_Content_Read ==
  [args |-> <<Req("document_id", "string")>>,
   returns |-> "string", result |-> <<>>]

Document_Content_Replace ==
  [args |-> <<Req("document_id", "string"), Req("heading", "string"),
      Req("content", "string")>>,
   returns |-> "object", result |-> <<
      F("document_id", "string"), F("revision_id", "string"),
      F("replaced_chars", "int")>>]

Document_Doc_List ==
  [args |-> <<Opt("query", "string"), Opt("max_results", "int")>>,
   returns |-> "list<object>", result |-> <<
      F("id", "string"), F("title", "string"), F("modified_at", "string"),
      F("owner", "string")>>]

Email_Message_Create ==
  [args |-> <<Req("to", "list<string>"), Req("subject", "string"),
      Req("body", "string"), Opt("cc", "list<string>")>>,
   returns |-> "object", result |-> <<
      F("draft_id", "string"), F("created_at", "string")>>]

Email_Message_List ==
  [args |-> <<Opt("folder", "string"), Opt("unread_only", "bool"),
      Opt("max_results", "int"), Opt("query", "string")>>,
   returns |-> "list<object>", result |-> <<
      F("id", "string"), F("from", "string"), F("subject", "string"),
      F("date", "string"), F("unread", "bool"), F("has_attachments", "bool")>>]

Email_Message_Read ==
  [args |-> <<Req("message_id", "string"), Opt("strip_tracking", "bool")>>,
   returns |-> "object", result |-> <<
      F("from", "string"), F("to", "string"), F("cc", "string"),
      F("subject", "string"), F("date", "string"), F("body_markdown", "string"),
      F("attachments", "string")>>]

Email_Message_Send ==
  [args |-> <<Req("draft_id", "string")>>,
   returns |-> "object", result |-> <<
      F("message_id", "string"), F("sent_at", "string")>>]

Filesystem_Dir_Create ==
  [args |-> <<Req("path", "string")>>,
   returns |-> "bool", result |-> <<>>]

Filesystem_Dir_List ==
  [args |-> <<Opt("path", "string"), Opt("recursive", "bool")>>,
   returns |-> "list<object>", result |-> <<
      F("name", "string"), F("type", "string"), F("size_bytes", "int"),
      F("modified_at", "string")>>]

Filesystem_File_Delete ==
  [args |-> <<Req("path", "string")>>,
   returns |-> "bool", result |-> <<>>]

Filesystem_File_Move ==
  [args |-> <<Req("src", "string"), Req("dst", "string")>>,
   returns |-> "bool", result |-> <<>>]

Filesystem_File_Read ==
  [args |-> <<
      Req("path", "string"), OptOneOf("encoding", <<"utf-8", "base64">>)>>,
   returns |-> "string", result |-> <<>>]

Filesystem_File_Write ==
  [args |-> <<
      Req("path", "string"), Req("content", "string"), Opt("append", "bool"),
      OptOneOf("encoding", <<"utf-8", "base64">>)>>,
   returns |-> "object", result |-> <<
      F("path", "string"), F("bytes_written", "int")>>]

Media_Audio_Transcribe ==
  [args |-> <<Req("path", "string"), Opt("language", "string")>>,
   returns |-> "object", result |-> <<
      F("text", "string"), F("language", "string"),
      F("duration_seconds", "int")>>]

Media_Image_Analyze ==
  [args |-> <<Req("source", "string"), Opt("prompt", "string")>>,
   returns |-> "string", result |-> <<>>]

Memory_Fact_Delete ==
  [args |-> <<Req("key", "string")>>,
   returns |-> "bool", result |-> <<>>]

Memory_Fact_List ==
  [args |-> <<Opt("tag", "string"), Opt("max_results", "int")>>,
   returns |-> "list<object>", result |-> <<
      F("key", "string"), F("value", "string"), F("tags", "list<string>"),
      F("stored_at", "string")>>]

Memory_Fact_Search ==
  [args |-> <<Req("query", "string"), Opt("max_results", "int")>>,
   returns |-> "list<object>", result |-> <<
      F("key", "string"), F("value", "string"), F("tags", "list<string>"),
      F("score", "int"), F("stored_at", "string")>>]

Memory_Fact_Store ==
  [args |-> <<Req("key", "string"), Req("value", "string"),
      Opt("tags", "list<string>")>>,
   returns |-> "object", result |-> <<
      F("key", "string"), F("stored_at", "string")>>]

Search_Corpus_Query ==
  [args |-> <<Req("query", "string"), Req("corpus_id", "string"),
      Opt("max_results", "int")>>,
   returns |-> "list<object>", result |-> <<
      F("content", "string"), F("source", "string"), F("score", "int")>>]

Search_Web_Query ==
  [args |-> <<Req("query", "string"), Opt("max_results", "int"),
      Opt("date_after", "string")>>,
   returns |-> "list<object>", result |-> <<
      F("title", "string"), F("url", "string"), F("snippet", "string"),
      F("published_date", "string")>>]

Spreadsheet_Range_Read ==
  [args |-> <<Req("spreadsheet_id", "string"), Req("range", "string")>>,
   returns |-> "list<list<string>>", result |-> <<>>]

Spreadsheet_Range_Update ==
  [args |-> <<Req("spreadsheet_id", "string"), Req("range", "string"),
      Req("values", "list<list<string>>")>>,
   returns |-> "object", result |-> <<
      F("updated_range", "string"), F("updated_cells", "int")>>]

Spreadsheet_Row_Create ==
  [args |-> <<Req("spreadsheet_id", "string"), Req("sheet_name", "string"),
      Req("values", "list<string>")>>,
   returns |-> "object", result |-> <<
      F("range", "string"), F("updated_rows", "int")>>]

Spreadsheet_Sheet_List ==
  [args |-> <<Req("spreadsheet_id", "string")>>,
   returns |-> "list<object>", result |-> <<
      F("sheet_id", "string"), F("title", "string"), F("row_count", "int"),
      F("col_count", "int")>>]

Swarm_Agent_List ==
  [args |-> <<>>,
   returns |-> "list<object>", result |-> <<
      F("id", "string"), F("status", "string"), F("groups", "list<string>"),
      F("last_seen", "string")>>]

Swarm_Group_Send ==
  [args |-> <<Req("group", "string"), Req("payload", "string"),
      OptOneOf("msg_type", <<"task", "result", "query", "ack", "error">>)>>,
   returns |-> "object", result |-> <<
      F("seq_no", "int"), F("delivered_to_count", "int")>>]

Swarm_Message_Send ==
  [args |-> <<Req("to_id", "string"), Req("payload", "string"),
      OptOneOf("msg_type", <<"task", "result", "query", "ack", "error">>)>>,
   returns |-> "object", result |-> <<
      F("seq_no", "int"), F("delivered_at", "string")>>]

System_Process_Exec ==
  [args |-> <<
      Req("command", "string"), Opt("workdir", "string"), Opt("timeout", "int"),
      Opt("env", "list<object>")>>,
   returns |-> "object", result |-> <<
      F("stdout", "string"), F("stderr", "string"), F("exit_code", "int"),
      F("duration_ms", "string")>>]

System_Process_Kill ==
  [args |-> <<Req("pid", "int"),
      OptOneOf("signal", <<"SIGTERM", "SIGKILL", "SIGINT", "SIGHUP">>)>>,
   returns |-> "bool", result |-> <<>>]

System_Process_List ==
  [args |-> <<>>,
   returns |-> "list<object>", result |-> <<
      F("pid", "int"), F("name", "string"), F("cpu_pct", "int"),
      F("mem_mb", "int"), F("started_at", "string")>>]

VersionControl_Branch_Create ==
  [args |-> <<
      Opt("path", "string"), Req("name", "string"), Opt("from", "string")>>,
   returns |-> "object", result |-> <<
      F("name", "string"), F("from_hash", "string")>>]

VersionControl_Branch_List ==
  [args |-> <<Opt("path", "string"), Opt("remote", "bool")>>,
   returns |-> "list<object>", result |-> <<
      F("name", "string"), F("is_current", "bool"),
      F("last_commit_hash", "string"), F("last_commit_date", "string")>>]

VersionControl_Commit_Create ==
  [args |-> <<Opt("path", "string"), Req("message", "string"),
      Req("files", "list<string>")>>,
   returns |-> "object", result |-> <<
      F("hash", "string"), F("branch", "string"), F("files_changed", "int")>>]

VersionControl_Diff_Read ==
  [args |-> <<
      Opt("path", "string"), Opt("base", "string"), Opt("head", "string")>>,
   returns |-> "string", result |-> <<>>]

VersionControl_Log_List ==
  [args |-> <<Opt("path", "string"), Opt("max_results", "int"),
      Opt("branch", "string")>>,
   returns |-> "list<object>", result |-> <<
      F("hash", "string"), F("author", "string"), F("date", "string"),
      F("subject", "string")>>]

VersionControl_Remote_Push ==
  [args |-> <<
      Opt("path", "string"), Opt("remote", "string"), Opt("force", "bool")>>,
   returns |-> "object", result |-> <<
      F("remote", "bool"), F("branch", "string"), F("commits_pushed", "int")>>]

VersionControl_Status_Read ==
  [args |-> <<Opt("path", "string")>>,
   returns |-> "object", result |-> <<
      F("branch", "string"), F("staged", "string"), F("unstaged", "string"),
      F("untracked", "string")>>]

-----------------------------------------------------------------------------
GeneratedCapabilityInfoRegistry == <<
  Browser_Form_Submit, Browser_Link_List, Browser_Page_GetTitle,
  Browser_Page_Read, Browser_Page_Screenshot, Calendar_Event_Create,
  Calendar_Event_List, Calendar_Event_Read, Calendar_Slot_Find,
  Code_Lint_Run, Code_Script_Exec, Code_Test_Run, Database_Query_Exec,
  Database_Schema_Read, Database_Table_List, Document_Content_Append,
  Document_Content_Read, Document_Content_Replace, Document_Doc_List,
  Email_Message_Create, Email_Message_List, Email_Message_Read,
  Email_Message_Send, Filesystem_Dir_Create, Filesystem_Dir_List,
  Filesystem_File_Delete, Filesystem_File_Move, Filesystem_File_Read,
  Filesystem_File_Write, Media_Audio_Transcribe, Media_Image_Analyze,
  Memory_Fact_Delete, Memory_Fact_List, Memory_Fact_Search,
  Memory_Fact_Store, Search_Corpus_Query, Search_Web_Query,
  Spreadsheet_Range_Read, Spreadsheet_Range_Update, Spreadsheet_Row_Create,
  Spreadsheet_Sheet_List, Swarm_Agent_List, Swarm_Group_Send,
  Swarm_Message_Send, System_Process_Exec, System_Process_Kill,
  System_Process_List, VersionControl_Branch_Create,
  VersionControl_Branch_List, VersionControl_Commit_Create,
  VersionControl_Diff_Read, VersionControl_Log_List,
  VersionControl_Remote_Push, VersionControl_Status_Read>>

Capability == DOMAIN GeneratedCapabilityInfoRegistry
Info(c) == GeneratedCapabilityInfoRegistry[c]

(* What a Go variable of a type holds before anything is assigned to it.   *)
ZeroValue(type) == IF type = "int" THEN 0 ELSE IF type = "bool" THEN FALSE ELSE <<>>

(* A text after json.Marshal, which has no ill-formed text.                *)
ThroughJSON(text) ==
  FlattenSeq([i \in DOMAIN text |-> IF text[i] \in IllFormed THEN Replacement ELSE <<text[i]>>])

-----------------------------------------------------------------------------
(* Faulty variants.                                                        *)

(* An empty value is left out.                                             *)
MarshalResultNonEmpty(fields, v) ==
  FlattenSeq([i \in DOMAIN fields |->
    IF fields[i].type \in {"int", "bool"} \/ (fields[i].type = "string" /\ v[i] # <<>>)
      THEN MarshalField(fields[i].type, v[i]) ELSE <<>>])

-----------------------------------------------------------------------------
(* The argument payload: NewArgumentPayload(name).MarshalMUS, UnmarshalMUS. *)

MarshalArgs(c, v) ==
  FlattenSeq([i \in DOMAIN v |-> MarshalField(Info(c).args[i].type, v[i])])

UnmarshalArgs(c, r) ==
  LET fields == Info(c).args
      read == [i \in DOMAIN fields |-> [s \in Seq(Bytes) |-> UnmarshalField(fields[i].type, s)]] IN
  ReadEach(read, Len(fields), r)

-----------------------------------------------------------------------------
(* The result payload.  The generator writes code for fields of three      *)
(* types; a field that is a list has no line in MarshalMUS and none in     *)
(* UnmarshalMUS.                                                           *)

OnTheWire(f) == f.type \in {"string", "int", "bool"}

MarshalResult(fields, v) ==
  FlattenSeq([i \in DOMAIN fields |->
    IF OnTheWire(fields[i]) THEN MarshalField(fields[i].type, v[i]) ELSE <<>>])

UnmarshalResult(fields, r) ==
  LET read == [i \in DOMAIN fields |-> [s \in Seq(Bytes) |->
                 IF OnTheWire(fields[i]) THEN UnmarshalField(fields[i].type, s)
                 ELSE Read(ZeroValue(fields[i].type), s)]] IN
  ReadEach(read, Len(fields), r)

(* What a capability answers with.                                         *)
EncodeResult(c, v) ==
  LET item(x) == MarshalResult(Info(c).result, x) IN
  CASE Info(c).returns = "object" -> item(v)
    [] Info(c).returns = "list<object>" -> AppendList(item, v)
    [] Info(c).returns = "bytes" -> v
    [] OTHER -> MarshalField(Info(c).returns, v)

(* A list of rows, with nothing after it.                                  *)
DecodeStringMatrix(data) ==
  Then(UnmarshalField("list<list<string>>", data), LAMBDA rows :
    IF rows.rest = <<>> THEN rows ELSE Failed("trailing"))

DecodeResult(c, data) ==
  LET item(r) == UnmarshalResult(Info(c).result, r) IN
  CASE Info(c).returns = "object" -> item(data)
    [] Info(c).returns = "list<object>" -> ReadList(item, data)
    [] Info(c).returns = "string" -> ReadString(data, MaxPayloadBytes)
    [] Info(c).returns = "bool" ->
         IF Len(data) = 1 THEN ReadBool(data) ELSE Failed("expected 1 byte")
    [] Info(c).returns = "bytes" -> Read(data, <<>>)
    [] Info(c).returns = "list<list<string>>" -> DecodeStringMatrix(data)

(* The JSON that is printed of a result.  Bytes are in base64 there, and   *)
(* the fields that are lists hold nothing.                                 *)
JSONOf(type, v) ==
  CASE type = "string" -> ThroughJSON(v)
    [] type = "list<list<string>>" -> [i \in DOMAIN v |-> [j \in DOMAIN v[i] |-> ThroughJSON(v[i][j])]]
    [] OTHER -> v

ResultToJSON(c, v) ==
  LET fields == Info(c).result
      item(x) == [i \in DOMAIN x |-> JSONOf(fields[i].type, x[i])] IN
  CASE Info(c).returns = "object" -> item(v)
    [] Info(c).returns = "list<object>" -> [i \in DOMAIN v |-> item(v[i])]
    [] OTHER -> JSONOf(Info(c).returns, v)

DecodeResultToJSON(c, data) ==
  Then(DecodeResult(c, data), LAMBDA v : Read(ResultToJSON(c, v.val), v.rest))
=============================================================================
