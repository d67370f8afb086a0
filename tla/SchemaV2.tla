------------------------------- MODULE SchemaV2 -------------------------------
(***************************************************************************)
(* The types of version 2 of the protocol (experimental/v2/types_gen.go):  *)
(* the rule of every field of the structs, and the arms of the unions with *)
(* the fields they ask for before they decode the body of the variant.     *)
(* What a struct that is only the body of an arm reads for an absent field *)
(* does not matter where the arm asks for it.  The parts that messages     *)
(* carry are in SchemaV2Content.                                           *)
(***************************************************************************)
EXTENDS SchemaV2Content

AgentAuthCapabilities == Struct(Lenient({"_meta"}))

AgentCapabilities == Struct(Lenient({"_meta", "auth", "session"}))

AgentMessage == Struct(Required({"messageId"}) @@ Patch({"_meta"})
    @@ PatchItems({"content"}))

AgentNotification == Struct(Required({"method"}) @@ OptionalAny({"params"}))

AgentRequest == Struct(Required({"id", "method"}) @@ OptionalAny({"params"}))

AgentResult == Struct(Required({"id"}) @@ RequiredAny({"result"}))

AgentError == Struct(Required({"error"}) @@ Present({"id"}))

AgentResponse == Union(None,
    <<>>,
    <<Arm("Result", {"id", "result"}, AgentResult),
      Having({"id"}, Arm("Error", {"error"}, AgentError))>>)

AgentThought == Struct(Required({"messageId"}) @@ Patch({"_meta"})
    @@ PatchItems({"content"}))

AuthMethodTerminalInline == Struct(Required({"methodId", "name", "type"})
    @@ OptionalList({"args", "env"}) @@ Lenient({"_meta", "description"}))

AuthMethodAgentInline == Struct(Required({"methodId", "name", "type"})
    @@ Lenient({"_meta", "description"}))

AuthMethod == Union("type",
    ("terminal" :> Arm("Terminal", {"methodId", "name", "type"}, AuthMethodTerminalInline) @@
    "agent" :> Arm("Agent", {"methodId", "name", "type"}, AuthMethodAgentInline)),
    <<Arm("Other", {"methodId", "name", "type"}, Raw)>>)

AuthMethodAgent == Struct(Required({"methodId", "name"})
    @@ Lenient({"_meta", "description"}))

AuthMethodTerminal == Struct(Required({"methodId", "name"})
    @@ OptionalList({"args", "env"}) @@ Lenient({"_meta", "description"}))

AvailableCommandCommand == Struct(Required({"description", "name", "type"})
    @@ Lenient({"_meta", "input"}))

AvailableCommand == Union("type",
    ("command" :> Arm("Command", {"description", "name", "type"}, AvailableCommandCommand)),
    <<Arm("Other", {"description", "name", "type"}, Raw)>>)

AvailableCommandInputText == Struct(Required({"hint", "type"})
    @@ Lenient({"_meta"}))

AvailableCommandInput == Union("type",
    ("text" :> Arm("Text", {"hint", "type"}, AvailableCommandInputText)),
    <<Arm("Other", {"type"}, Raw)>>)

AvailableCommandsUpdate == Struct(Replacement({"availableCommands"})
    @@ Lenient({"_meta"}))

BackgroundTerminal == Struct(Required({"terminalId"}) @@ Lenient({"_meta"}))

BackgroundToolCall == Struct(Required({"toolCallId"}) @@ Lenient({"_meta"}))

BackgroundWorkTerminal == Struct(Required({"terminalId", "type"})
    @@ Lenient({"_meta"}))

BackgroundWorkToolCall == Struct(Required({"toolCallId", "type"})
    @@ Lenient({"_meta"}))

BackgroundWork == Union("type",
    ("terminal" :> Arm("Terminal", {"terminalId", "type"}, BackgroundWorkTerminal) @@
    "tool_call" :> Arm("ToolCall", {"toolCallId", "type"}, BackgroundWorkToolCall)),
    <<Arm("Other", {"type"}, Raw)>>)

CancelRequestNotification == Struct(Required({"requestId"})
    @@ Lenient({"_meta"}))

CancelSessionNotification == Struct(Required({"sessionId"})
    @@ Lenient({"_meta"}))

CancelTerminalRequest == Struct(Required({"sessionId", "terminalId"})
    @@ Lenient({"_meta"}))

CancelTerminalResponse == Struct(Lenient({"_meta"}))

CancelToolCallRequest == Struct(Required({"sessionId", "toolCallId"})
    @@ Lenient({"_meta"}))

CancelToolCallResponse == Struct(Lenient({"_meta"}))

CancelledPermissionOutcome == Struct(Lenient({"_meta"}))

ClientAuthCapabilities == Struct(Lenient({"_meta", "terminal"}))

ClientCapabilities == Struct(Lenient({"_meta", "auth", "elicitation"}))

ClientNotification == Struct(Required({"method"}) @@ OptionalAny({"params"}))

ClientRequest == Struct(Required({"id", "method"}) @@ OptionalAny({"params"}))

ClientResult == Struct(Required({"id"}) @@ RequiredAny({"result"}))

ClientError == Struct(Required({"error"}) @@ Present({"id"}))

ClientResponse == Union(None,
    <<>>,
    <<Arm("Result", {"id", "result"}, ClientResult),
      Having({"id"}, Arm("Error", {"error"}, ClientError))>>)

CloseSessionRequest == Struct(Required({"sessionId"}) @@ Lenient({"_meta"}))

CloseSessionResponse == Struct(Lenient({"_meta"}))

Command == Struct(Required({"description", "name"})
    @@ Lenient({"_meta", "input"}))

CommandPermissionSubject == Struct(Required({"command", "cwd"})
    @@ Lenient({"_meta", "terminalId", "toolCallId"}))

CompactionSummaryChunk == Struct(Required({"compactionId", "content"})
    @@ Lenient({"_meta"}))

CompactionUpdate == Struct(Required({"compactionId", "status"})
    @@ Patch({"_meta", "error"}) @@ PatchItems({"summary"}))

ConfigOptionUpdate == Struct(Replacement({"configOptions"})
    @@ Lenient({"_meta"}))

ContentChunk == Struct(Required({"content", "messageId"})
    @@ Lenient({"_meta"}))

Cost == Struct(Required({"amount", "currency"}) @@ Lenient({"_meta"}))

DeleteSessionRequest == Struct(Required({"sessionId"}) @@ Lenient({"_meta"}))

DeleteSessionResponse == Struct(Lenient({"_meta"}))

EnvVariable == Struct(Required({"name", "value"}) @@ Lenient({"_meta"}))

Error == Struct(Required({"code", "message"}) @@ Lenient({"data"}))

SessionNotFoundErrorData == Struct(Required({"sessionId"})
    @@ Lenient({"_meta"}))

UnsupportedProtocolVersionErrorData == Struct(Required({"requested"})
    @@ RequiredList({"supported"}) @@ Lenient({"_meta"}))

ErrorData == Union(None,
    <<>>,
    <<Arm("UnsupportedProtocolVersion", {"requested", "supported"},
        UnsupportedProtocolVersionErrorData),
      Arm("SessionNotFound", {"sessionId"}, SessionNotFoundErrorData),
      Arm("Other", {}, Raw)>>)

ErrorStopReason == Struct(Lenient({"error"}))

HttpHeader == Struct(Required({"name", "value"}) @@ Lenient({"_meta"}))

IdleStateUpdateEndTurn == Struct(Required({"stopReason"}) @@ Lenient({"_meta"})
    @@ LenientList({"background"}))

IdleStateUpdateMaxTokens == Struct(Required({"stopReason"})
    @@ Lenient({"_meta"}) @@ LenientList({"background"}))

IdleStateUpdateMaxTurnRequests == Struct(Required({"stopReason"})
    @@ Lenient({"_meta"}) @@ LenientList({"background"}))

IdleStateUpdateRefusal == Struct(Required({"stopReason"}) @@ Lenient({"_meta"})
    @@ LenientList({"background"}))

IdleStateUpdateCancelled == Struct(Required({"stopReason"})
    @@ Lenient({"_meta"}) @@ LenientList({"background"}))

IdleStateUpdateError == Struct(Required({"stopReason"})
    @@ Lenient({"_meta", "error"}) @@ LenientList({"background"}))

IdleStateUpdateNone == Struct(Lenient({"_meta"}) @@ LenientList({"background"})
    @@ Lenient({"stopReason"}))

IdleStateUpdate == Union("stopReason",
    ("end_turn" :> Arm("EndTurn", {"stopReason"}, IdleStateUpdateEndTurn) @@
    "max_tokens" :> Arm("MaxTokens", {"stopReason"}, IdleStateUpdateMaxTokens) @@
    "max_turn_requests" :> Arm("MaxTurnRequests", {"stopReason"},
        IdleStateUpdateMaxTurnRequests) @@
    "refusal" :> Arm("Refusal", {"stopReason"}, IdleStateUpdateRefusal) @@
    "cancelled" :> Arm("Cancelled", {"stopReason"}, IdleStateUpdateCancelled) @@
    "error" :> Arm("Error", {"stopReason"}, IdleStateUpdateError)),
    <<Arm("Other", {"stopReason"}, Raw),
      Arm("None", {}, IdleStateUpdateNone)>>)

Implementation == Struct(Required({"name", "version"})
    @@ Lenient({"_meta", "title"}))

InitializeRequest == Struct(Required({"info", "protocolVersion"})
    @@ DefaultedLenient({"capabilities"}) @@ Lenient({"_meta"}))

InitializeResponse == Struct(Required({"info", "protocolVersion"})
    @@ DefaultedLenient({"capabilities"}) @@ Lenient({"_meta"})
    @@ Items({"authMethods"}))

ListSessionsRequest == Struct(Optional({"cursor", "cwd"})
    @@ Lenient({"_meta"}))

ListSessionsResponse == Struct(Listing({"sessions"})
    @@ Optional({"nextCursor"}) @@ Lenient({"_meta"}))

LoginAuthRequest == Struct(Required({"methodId"}) @@ Lenient({"_meta"}))

LoginAuthResponse == Struct(Lenient({"_meta"}))

LogoutAuthRequest == Struct(Lenient({"_meta"}))

LogoutAuthResponse == Struct(Lenient({"_meta"}))

McpCapabilities == Struct(Lenient({"_meta", "http", "stdio"}))

McpHttpCapabilities == Struct(Lenient({"_meta"}))

McpServerHttpInline == Struct(Required({"name", "type", "url"})
    @@ OptionalList({"headers"}) @@ Lenient({"_meta"}))

McpServerStdioInline == Struct(Required({"command", "name", "type"})
    @@ OptionalList({"args", "env"}) @@ Lenient({"_meta"}))

McpServer == Union("type",
    ("http" :> Arm("Http", {"name", "type", "url"}, McpServerHttpInline) @@
    "stdio" :> Arm("Stdio", {"command", "name", "type"}, McpServerStdioInline)),
    <<Arm("Other", {"type"}, Raw)>>)

McpServerHttp == Struct(Required({"name", "url"}) @@ OptionalList({"headers"})
    @@ Lenient({"_meta"}))

McpServerStdio == Struct(Required({"command", "name"})
    @@ OptionalList({"args", "env"}) @@ Lenient({"_meta"}))

McpStdioCapabilities == Struct(Lenient({"_meta"}))

NewSessionRequest == Struct(Required({"cwd"})
    @@ OptionalList({"additionalDirectories", "mcpServers"})
    @@ Lenient({"_meta"}))

NewSessionResponse == Struct(Required({"sessionId"}) @@ Lenient({"_meta"})
    @@ Items({"availableCommands", "configOptions"}))

Notice == Struct(Required({"severity", "title"})
    @@ Lenient({"_meta", "description"}))

PermissionOption == Struct(Required({"kind", "name", "optionId"})
    @@ Lenient({"_meta"}))

PlanEntry == Struct(Required({"content", "priority", "status"})
    @@ Lenient({"_meta"}))

PlanItems == Struct(Required({"planId"}) @@ Replacement({"entries"})
    @@ Lenient({"_meta"}))

PlanUpdate == Struct(Required({"plan"}) @@ Lenient({"_meta"}))

PlanUpdateContentItems == Struct(Required({"planId", "type"})
    @@ Replacement({"entries"}) @@ Lenient({"_meta"}))

PlanUpdateContent == Union("type",
    ("items" :> Arm("Items", {"entries", "planId", "type"}, PlanUpdateContentItems)),
    <<Arm("Other", {"planId", "type"}, Raw)>>)

PromptAudioCapabilities == Struct(Lenient({"_meta"}))

PromptCapabilities ==
    Struct(Lenient({"_meta", "audio", "embeddedContext", "image"}))

PromptEmbeddedContextCapabilities == Struct(Lenient({"_meta"}))

PromptImageCapabilities == Struct(Lenient({"_meta"}))

PromptRequest == Struct(Required({"sessionId"}) @@ NonEmptyList({"prompt"})
    @@ Lenient({"_meta"}))

PromptResponse == Struct(Required({"messageId"}) @@ Lenient({"_meta"}))

ReplayFromStartInline == Struct(Required({"type"}) @@ Lenient({"_meta"}))

ReplayFrom == Union("type",
    ("start" :> Arm("Start", {"type"}, ReplayFromStartInline)),
    <<Arm("Other", {"type"}, Raw)>>)

ReplayFromStart == Struct(Lenient({"_meta"}))

RequestPermissionOutcomeCancelled == Struct(Required({"outcome"})
    @@ Lenient({"_meta"}))

RequestPermissionOutcomeSelected == Struct(Required({"optionId", "outcome"})
    @@ Lenient({"_meta"}))

RequestPermissionOutcome == Union("outcome",
    ("cancelled" :> Arm("Cancelled", {"outcome"}, RequestPermissionOutcomeCancelled) @@
    "selected" :> Arm("Selected", {"optionId", "outcome"}, RequestPermissionOutcomeSelected)),
    <<Arm("Other", {"outcome"}, Raw)>>)

RequestPermissionRequest == Struct(Required({"sessionId", "title"})
    @@ NonEmptyList({"options"}) @@ Optional({"subject"})
    @@ Lenient({"_meta", "description"}))

RequestPermissionResponse == Struct(Required({"outcome"})
    @@ Lenient({"_meta"}))

RequestPermissionSubjectToolCall == Struct(Required({"toolCall", "type"})
    @@ Lenient({"_meta"}))

RequestPermissionSubjectCommand == Struct(Required({"command", "cwd", "type"})
    @@ Lenient({"_meta", "terminalId", "toolCallId"}))

RequestPermissionSubject == Union("type",
    ("tool_call" :> Arm("ToolCall", {"toolCall", "type"}, RequestPermissionSubjectToolCall) @@
    "command" :> Arm("Command", {"command", "cwd", "type"}, RequestPermissionSubjectCommand)),
    <<Arm("Other", {"type"}, Raw)>>)

RequiresActionStateUpdate == Struct(Lenient({"_meta"})
    @@ LenientList({"background"}))

ResumeSessionRequest == Struct(Required({"cwd", "sessionId"})
    @@ Optional({"replayFrom"})
    @@ OptionalList({"additionalDirectories", "mcpServers"})
    @@ Lenient({"_meta"}))

ResumeSessionResponse == Struct(Lenient({"_meta"})
    @@ Items({"availableCommands", "configOptions"}))

RunningStateUpdate == Struct(Lenient({"_meta"}) @@ LenientList({"background"}))

SelectedPermissionOutcome == Struct(Required({"optionId"})
    @@ Lenient({"_meta"}))

SessionAdditionalDirectoriesCapabilities == Struct(Lenient({"_meta"}))

SessionCapabilities ==
    Struct(Lenient({"_meta", "additionalDirectories", "delete", "mcp",
        "prompt"}))

SessionConfigBoolean == Struct(Required({"currentValue"}))

SessionConfigOptionSelect ==
    Struct(Required({"currentValue", "options", "type"})
    @@ Plain({"configId", "name"})
    @@ Lenient({"_meta", "category", "description"}))

SessionConfigOptionBoolean == Struct(Required({"currentValue", "type"})
    @@ Plain({"configId", "name"})
    @@ Lenient({"_meta", "category", "description"}))

SessionConfigOption == Union("type",
    ("select" :> Arm("Select", {"configId", "currentValue", "name", "options", "type"},
        SessionConfigOptionSelect) @@
    "boolean" :> Arm("Boolean", {"configId", "currentValue", "name", "type"},
        SessionConfigOptionBoolean)),
    <<Arm("Other", {"configId", "name", "type"}, Raw)>>)

SessionConfigSelect == Struct(Required({"currentValue", "options"}))

SessionConfigSelectGroup == Struct(Required({"groupId", "name"})
    @@ NonEmptyItems({"options"}) @@ Lenient({"_meta"}))

SessionConfigSelectOption == Struct(Required({"name", "value"})
    @@ Lenient({"_meta", "description"}))

SessionDeleteCapabilities == Struct(Lenient({"_meta"}))

SessionInfo == Struct(Required({"cwd", "sessionId"})
    @@ OptionalList({"additionalDirectories"})
    @@ Lenient({"_meta", "title", "updatedAt"}))

SessionInfoUpdate == Struct(Patch({"_meta", "title", "updatedAt"}))

SessionUpdateUserMessageChunk ==
    Struct(Required({"content", "messageId", "sessionUpdate"})
    @@ Lenient({"_meta"}))

SessionUpdateUserMessage == Struct(Required({"messageId", "sessionUpdate"})
    @@ Patch({"_meta"}) @@ PatchItems({"content"}))

SessionUpdateAgentMessageChunk ==
    Struct(Required({"content", "messageId", "sessionUpdate"})
    @@ Lenient({"_meta"}))

SessionUpdateAgentMessage == Struct(Required({"messageId", "sessionUpdate"})
    @@ Patch({"_meta"}) @@ PatchItems({"content"}))

SessionUpdateAgentThoughtChunk ==
    Struct(Required({"content", "messageId", "sessionUpdate"})
    @@ Lenient({"_meta"}))

SessionUpdateAgentThought == Struct(Required({"messageId", "sessionUpdate"})
    @@ Patch({"_meta"}) @@ PatchItems({"content"}))

StateUpdateIdle == Embedding(Required({"state"}), IdleStateUpdate)

StateUpdateRequiresAction == Struct(Required({"state"}) @@ Lenient({"_meta"})
    @@ LenientList({"background"}))

StateUpdateRunning == Struct(Required({"state"}) @@ Lenient({"_meta"})
    @@ LenientList({"background"}))

StateUpdate == Union("state",
    ("running" :> Arm("Running", {"state"}, StateUpdateRunning) @@
    "idle" :> Arm("Idle", {"state"}, StateUpdateIdle) @@
    "requires_action" :> Arm("RequiresAction", {"state"}, StateUpdateRequiresAction)),
    <<Arm("Other", {"state"}, Raw)>>)

SessionStateUpdate == Embedding(Required({"sessionUpdate"}), StateUpdate)

SessionUpdateToolCallContentChunk ==
    Struct(Required({"content", "sessionUpdate", "toolCallId"})
    @@ Lenient({"_meta"}))

SessionToolCallUpdate == Struct(Required({"sessionUpdate", "toolCallId"})
    @@ OptionalAny({"rawInput", "rawOutput"})
    @@ Patch({"_meta", "capabilities", "kind", "name", "status", "title"})
    @@ PatchItems({"content", "locations"}))

SessionTerminalUpdate == Struct(Required({"sessionUpdate", "terminalId"})
    @@ Patch({"_meta", "capabilities", "command", "cwd", "exitStatus",
        "output", "size"}))

SessionUpdateTerminalOutputChunk ==
    Struct(Required({"data", "sessionUpdate", "terminalId"})
    @@ Lenient({"_meta"}))

SessionPlanUpdate == Struct(Required({"plan", "sessionUpdate"})
    @@ Lenient({"_meta"}))

SessionAvailableCommandsUpdate == Struct(Required({"sessionUpdate"})
    @@ Replacement({"availableCommands"}) @@ Lenient({"_meta"}))

SessionConfigOptionUpdate == Struct(Required({"sessionUpdate"})
    @@ Replacement({"configOptions"}) @@ Lenient({"_meta"}))

SessionSessionInfoUpdate == Struct(Required({"sessionUpdate"})
    @@ Patch({"_meta", "title", "updatedAt"}))

SessionUsageUpdate == Struct(Required({"sessionUpdate", "size", "used"})
    @@ Lenient({"_meta"}) @@ Patch({"cost"}))

SessionUpdateNotice == Struct(Required({"sessionUpdate", "severity", "title"})
    @@ Lenient({"_meta", "description"}))

SessionCompactionUpdate ==
    Struct(Required({"compactionId", "sessionUpdate", "status"})
    @@ Patch({"_meta", "error"}) @@ PatchItems({"summary"}))

SessionUpdateCompactionSummaryChunk ==
    Struct(Required({"compactionId", "content", "sessionUpdate"})
    @@ Lenient({"_meta"}))

SessionUpdate == Union("sessionUpdate",
    ("user_message_chunk" :> Arm("UserMessageChunk", {"content", "messageId",
        "sessionUpdate"}, SessionUpdateUserMessageChunk) @@
    "user_message" :> Arm("UserMessage", {"messageId", "sessionUpdate"},
        SessionUpdateUserMessage) @@
    "agent_message_chunk" :> Arm("AgentMessageChunk", {"content", "messageId",
        "sessionUpdate"}, SessionUpdateAgentMessageChunk) @@
    "agent_message" :> Arm("AgentMessage", {"messageId", "sessionUpdate"},
        SessionUpdateAgentMessage) @@
    "agent_thought_chunk" :> Arm("AgentThoughtChunk", {"content", "messageId",
        "sessionUpdate"}, SessionUpdateAgentThoughtChunk) @@
    "agent_thought" :> Arm("AgentThought", {"messageId", "sessionUpdate"},
        SessionUpdateAgentThought) @@
    "state_update" :> Arm("StateUpdate", {"sessionUpdate", "state"}, SessionStateUpdate) @@
    "tool_call_content_chunk" :> Arm("ToolCallContentChunk", {"content", "sessionUpdate",
        "toolCallId"}, SessionUpdateToolCallContentChunk) @@
    "tool_call_update" :> Arm("ToolCallUpdate", {"sessionUpdate", "toolCallId"},
        SessionToolCallUpdate) @@
    "terminal_update" :> Arm("TerminalUpdate", {"sessionUpdate", "terminalId"},
        SessionTerminalUpdate) @@
    "terminal_output_chunk" :> Arm("TerminalOutputChunk", {"data", "sessionUpdate",
        "terminalId"}, SessionUpdateTerminalOutputChunk) @@
    "plan_update" :> Arm("PlanUpdate", {"plan", "sessionUpdate"}, SessionPlanUpdate) @@
    "available_commands_update" :> Arm("AvailableCommandsUpdate", {"availableCommands",
        "sessionUpdate"}, SessionAvailableCommandsUpdate) @@
    "config_option_update" :> Arm("ConfigOptionUpdate", {"configOptions", "sessionUpdate"},
        SessionConfigOptionUpdate) @@
    "session_info_update" :> Arm("SessionInfoUpdate", {"sessionUpdate"},
        SessionSessionInfoUpdate) @@
    "usage_update" :> Arm("UsageUpdate", {"sessionUpdate", "size", "used"},
        SessionUsageUpdate) @@
    "notice" :> Arm("Notice", {"sessionUpdate", "severity", "title"}, SessionUpdateNotice) @@
    "compaction_update" :> Arm("CompactionUpdate", {"compactionId", "sessionUpdate",
        "status"}, SessionCompactionUpdate) @@
    "compaction_summary_chunk" :> Arm("CompactionSummaryChunk", {"compactionId", "content",
        "sessionUpdate"}, SessionUpdateCompactionSummaryChunk)),
    <<Arm("Other", {"sessionUpdate"}, Raw)>>)

SetSessionConfigOptionId == Struct(Required({"type", "value"})
    @@ Plain({"configId", "sessionId"}) @@ Lenient({"_meta"}))

SetSessionConfigOptionBoolean == Struct(Required({"type", "value"})
    @@ Plain({"configId", "sessionId"}) @@ Lenient({"_meta"}))

SetSessionConfigOptionRequest == Union("type",
    ("id" :> Arm("Id", {"configId", "sessionId", "type", "value"}, SetSessionConfigOptionId) @@
    "boolean" :> Arm("Boolean", {"configId", "sessionId", "type", "value"},
        SetSessionConfigOptionBoolean)),
    <<Arm("Other", {"configId", "sessionId", "type", "value"}, Raw)>>)

SetSessionConfigOptionResponse == Struct(Replacement({"configOptions"})
    @@ Lenient({"_meta"}))

Terminal == Struct(Required({"terminalId"}) @@ Lenient({"_meta"}))

TerminalAuthCapabilities == Struct(Lenient({"_meta"}))

TerminalCancelCapabilities == Struct(Lenient({"_meta"}))

TerminalCapabilities == Struct(Lenient({"_meta", "cancel"}))

TerminalExitStatus == Struct(Lenient({"_meta", "exitCode", "signal"}))

TerminalOutput == Struct(Required({"data"}) @@ Lenient({"_meta"}))

TerminalOutputChunk == Struct(Required({"data", "terminalId"})
    @@ Lenient({"_meta"}))

TerminalSize == Struct(Required({"cols", "rows"}) @@ Lenient({"_meta"}))

TerminalUpdate == Struct(Required({"terminalId"})
    @@ Patch({"_meta", "capabilities", "command", "cwd", "exitStatus",
        "output", "size"}))

TextCommandInput == Struct(Required({"hint"}) @@ Lenient({"_meta"}))

ToolCallCancelCapabilities == Struct(Lenient({"_meta"}))

ToolCallCapabilities == Struct(Lenient({"_meta", "cancel"}))

ToolCallContentContent == Struct(Required({"content", "type"})
    @@ Lenient({"_meta"}))

ToolCallContentDiff == Struct(Required({"type"}) @@ Replacement({"changes"})
    @@ Lenient({"_meta", "patch"}))

ToolCallContentTerminal == Struct(Required({"terminalId", "type"})
    @@ Lenient({"_meta"}))

ToolCallContent == Union("type",
    ("content" :> Arm("Content", {"content", "type"}, ToolCallContentContent) @@
    "diff" :> Arm("Diff", {"changes", "type"}, ToolCallContentDiff) @@
    "terminal" :> Arm("Terminal", {"terminalId", "type"}, ToolCallContentTerminal)),
    <<Arm("Other", {"type"}, Raw)>>)

ToolCallContentChunk == Struct(Required({"content", "toolCallId"})
    @@ Lenient({"_meta"}))

ToolCallLocation == Struct(Required({"path"}) @@ Lenient({"_meta", "line"}))

ToolCallPermissionSubject == Struct(Required({"toolCall"})
    @@ Lenient({"_meta"}))

ToolCallUpdate == Struct(Required({"toolCallId"})
    @@ OptionalAny({"rawInput", "rawOutput"})
    @@ Patch({"_meta", "capabilities", "kind", "name", "status", "title"})
    @@ PatchItems({"content", "locations"}))

UpdateSessionNotification == Struct(Required({"sessionId", "update"})
    @@ Lenient({"_meta"}))

UsageUpdate == Struct(Required({"size", "used"}) @@ Lenient({"_meta"})
    @@ Patch({"cost"}))

UserMessage == Struct(Required({"messageId"}) @@ Patch({"_meta"})
    @@ PatchItems({"content"}))

RequestId == Plains(<<
    Form("Number", {"integer"}, Keeps({"integer"})),
    Form("Str", {"string"}, Keeps({"string"}))>>)
ErrorCode == Plains(<<
    Form("ParseError", {"-32700"}, Keeps({"-32700"})),
    Form("InvalidRequest", {"-32600"}, Keeps({"-32600"})),
    Form("MethodNotFound", {"-32601"}, Keeps({"-32601"})),
    Form("InvalidParams", {"-32602"}, Keeps({"-32602"})),
    Form("InternalError", {"-32603"}, Keeps({"-32603"})),
    Form("RequestCancelled", {"-32800"}, Keeps({"-32800"})),
    Form("AuthenticationRequired", {"-32000"}, Keeps({"-32000"})),
    Form("ResourceNotFound", {"-32002"}, Keeps({"-32002"})),
    Form("UnsupportedProtocolVersion", {"-32022"}, Keeps({"-32022"})),
    Form("Other", {"integer"}, Keeps({"integer"}))>>)
SessionConfigSelectOptions == Plains(<<
    Form("Ungrouped", {"options", "both"}, "both" :> "options" @@ Keeps({"options"})),
    Form("Grouped", {"groups"}, Keeps({"groups"}))>>)

\* The types a message or a field of one may have; the bodies of arms are
\* reached through their unions.
Types == [
    AgentAuthCapabilities |-> AgentAuthCapabilities,
    AgentCapabilities |-> AgentCapabilities, AgentMessage |-> AgentMessage,
    AgentNotification |-> AgentNotification, AgentRequest |-> AgentRequest,
    AgentResponse |-> AgentResponse, AgentThought |-> AgentThought,
    Annotations |-> Annotations, AudioContent |-> AudioContent, AuthMethod |-> AuthMethod,
    AuthMethodAgent |-> AuthMethodAgent, AuthMethodTerminal |-> AuthMethodTerminal,
    AvailableCommand |-> AvailableCommand, AvailableCommandInput |-> AvailableCommandInput,
    AvailableCommandsUpdate |-> AvailableCommandsUpdate,
    BackgroundTerminal |-> BackgroundTerminal, BackgroundToolCall |-> BackgroundToolCall,
    BackgroundWork |-> BackgroundWork, BooleanPropertySchema |-> BooleanPropertySchema,
    CancelRequestNotification |-> CancelRequestNotification,
    CancelSessionNotification |-> CancelSessionNotification,
    CancelTerminalRequest |-> CancelTerminalRequest,
    CancelTerminalResponse |-> CancelTerminalResponse,
    CancelToolCallRequest |-> CancelToolCallRequest,
    CancelToolCallResponse |-> CancelToolCallResponse,
    CancelledPermissionOutcome |-> CancelledPermissionOutcome,
    ClientAuthCapabilities |-> ClientAuthCapabilities,
    ClientCapabilities |-> ClientCapabilities, ClientNotification |-> ClientNotification,
    ClientRequest |-> ClientRequest, ClientResponse |-> ClientResponse,
    CloseSessionRequest |-> CloseSessionRequest,
    CloseSessionResponse |-> CloseSessionResponse, Command |-> Command,
    CommandPermissionSubject |-> CommandPermissionSubject,
    CompactionSummaryChunk |-> CompactionSummaryChunk,
    CompactionUpdate |-> CompactionUpdate,
    CompleteElicitationNotification |-> CompleteElicitationNotification,
    ConfigOptionUpdate |-> ConfigOptionUpdate, Content |-> Content,
    ContentBlock |-> ContentBlock, ContentChunk |-> ContentChunk, Cost |-> Cost,
    CreateElicitationRequest |-> CreateElicitationRequest,
    CreateElicitationResponse |-> CreateElicitationResponse,
    DeleteSessionRequest |-> DeleteSessionRequest,
    DeleteSessionResponse |-> DeleteSessionResponse, Diff |-> Diff,
    DiffChange |-> DiffChange, DiffPatch |-> DiffPatch, DiffPathChange |-> DiffPathChange,
    DiffPathPairChange |-> DiffPathPairChange,
    ElicitationAcceptAction |-> ElicitationAcceptAction,
    ElicitationCapabilities |-> ElicitationCapabilities,
    ElicitationFormCapabilities |-> ElicitationFormCapabilities,
    ElicitationFormMode |-> ElicitationFormMode,
    ElicitationPropertySchema |-> ElicitationPropertySchema,
    ElicitationRequestScope |-> ElicitationRequestScope,
    ElicitationSchema |-> ElicitationSchema,
    ElicitationSessionScope |-> ElicitationSessionScope,
    ElicitationUrlCapabilities |-> ElicitationUrlCapabilities,
    ElicitationUrlMode |-> ElicitationUrlMode, EmbeddedResource |-> EmbeddedResource,
    EmbeddedResourceResource |-> EmbeddedResourceResource, EnumOption |-> EnumOption,
    EnvVariable |-> EnvVariable, Error |-> Error, ErrorData |-> ErrorData,
    ErrorStopReason |-> ErrorStopReason, HttpHeader |-> HttpHeader, Icon |-> Icon,
    IdleStateUpdate |-> IdleStateUpdate, ImageContent |-> ImageContent,
    Implementation |-> Implementation, InitializeRequest |-> InitializeRequest,
    InitializeResponse |-> InitializeResponse,
    IntegerPropertySchema |-> IntegerPropertySchema,
    ListSessionsRequest |-> ListSessionsRequest,
    ListSessionsResponse |-> ListSessionsResponse, LoginAuthRequest |-> LoginAuthRequest,
    LoginAuthResponse |-> LoginAuthResponse, LogoutAuthRequest |-> LogoutAuthRequest,
    LogoutAuthResponse |-> LogoutAuthResponse, McpCapabilities |-> McpCapabilities,
    McpHttpCapabilities |-> McpHttpCapabilities, McpServer |-> McpServer,
    McpServerHttp |-> McpServerHttp, McpServerStdio |-> McpServerStdio,
    McpStdioCapabilities |-> McpStdioCapabilities, MultiSelectItems |-> MultiSelectItems,
    MultiSelectPropertySchema |-> MultiSelectPropertySchema,
    NewSessionRequest |-> NewSessionRequest, NewSessionResponse |-> NewSessionResponse,
    Notice |-> Notice, NumberPropertySchema |-> NumberPropertySchema,
    PermissionOption |-> PermissionOption, PlanEntry |-> PlanEntry, PlanItems |-> PlanItems,
    PlanUpdate |-> PlanUpdate, PlanUpdateContent |-> PlanUpdateContent,
    PromptAudioCapabilities |-> PromptAudioCapabilities,
    PromptCapabilities |-> PromptCapabilities,
    PromptEmbeddedContextCapabilities |-> PromptEmbeddedContextCapabilities,
    PromptImageCapabilities |-> PromptImageCapabilities, PromptRequest |-> PromptRequest,
    PromptResponse |-> PromptResponse, ReplayFrom |-> ReplayFrom,
    ReplayFromStart |-> ReplayFromStart,
    RequestPermissionOutcome |-> RequestPermissionOutcome,
    RequestPermissionRequest |-> RequestPermissionRequest,
    RequestPermissionResponse |-> RequestPermissionResponse,
    RequestPermissionSubject |-> RequestPermissionSubject,
    RequiresActionStateUpdate |-> RequiresActionStateUpdate, ResourceLink |-> ResourceLink,
    ResumeSessionRequest |-> ResumeSessionRequest,
    ResumeSessionResponse |-> ResumeSessionResponse,
    RunningStateUpdate |-> RunningStateUpdate,
    SelectedPermissionOutcome |-> SelectedPermissionOutcome,
    SessionAdditionalDirectoriesCapabilities |-> SessionAdditionalDirectoriesCapabilities,
    SessionCapabilities |-> SessionCapabilities,
    SessionConfigBoolean |-> SessionConfigBoolean,
    SessionConfigOption |-> SessionConfigOption,
    SessionConfigSelect |-> SessionConfigSelect,
    SessionConfigSelectGroup |-> SessionConfigSelectGroup,
    SessionConfigSelectOption |-> SessionConfigSelectOption,
    SessionDeleteCapabilities |-> SessionDeleteCapabilities, SessionInfo |-> SessionInfo,
    SessionInfoUpdate |-> SessionInfoUpdate, StateUpdate |-> StateUpdate,
    SessionUpdate |-> SessionUpdate,
    SetSessionConfigOptionRequest |-> SetSessionConfigOptionRequest,
    SetSessionConfigOptionResponse |-> SetSessionConfigOptionResponse,
    StringMultiSelectItems |-> StringMultiSelectItems,
    StringPropertySchema |-> StringPropertySchema, Terminal |-> Terminal,
    TerminalAuthCapabilities |-> TerminalAuthCapabilities,
    TerminalCancelCapabilities |-> TerminalCancelCapabilities,
    TerminalCapabilities |-> TerminalCapabilities,
    TerminalExitStatus |-> TerminalExitStatus, TerminalOutput |-> TerminalOutput,
    TerminalOutputChunk |-> TerminalOutputChunk, TerminalSize |-> TerminalSize,
    TerminalUpdate |-> TerminalUpdate, TextCommandInput |-> TextCommandInput,
    TextContent |-> TextContent, ToolCallCancelCapabilities |-> ToolCallCancelCapabilities,
    ToolCallCapabilities |-> ToolCallCapabilities, ToolCallContent |-> ToolCallContent,
    ToolCallContentChunk |-> ToolCallContentChunk, ToolCallLocation |-> ToolCallLocation,
    ToolCallPermissionSubject |-> ToolCallPermissionSubject,
    ToolCallUpdate |-> ToolCallUpdate,
    UpdateSessionNotification |-> UpdateSessionNotification, UsageUpdate |-> UsageUpdate,
    UserMessage |-> UserMessage, ElicitationContentValue |-> ElicitationContentValue,
    ErrorCode |-> ErrorCode, RequestId |-> RequestId,
    SessionConfigSelectOptions |-> SessionConfigSelectOptions]
===============================================================================
