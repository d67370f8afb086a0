------------------------------- MODULE SchemaV1 -------------------------------
(***************************************************************************)
(* The types of version 1 of the protocol (types_gen.go): the rule of      *)
(* every field of the structs, and the arms of the unions with the fields  *)
(* they ask for before they decode the body of the variant.  What a struct *)
(* that is only the body of an arm reads for an absent field does not      *)
(* matter where the arm asks for it.                                       *)
(***************************************************************************)
EXTENDS WireTypes

AgentAuthCapabilities == Struct(Optional({"_meta", "logout"}))

AgentCapabilities ==
    Struct(Defaulted({"auth", "loadSession", "mcpCapabilities",
        "promptCapabilities", "sessionCapabilities"}) @@ Optional({"_meta"}))

AgentNotification == Struct(Required({"method"}) @@ OptionalAny({"params"}))

AgentRequest == Struct(Required({"method"}) @@ Present({"id"})
    @@ OptionalAny({"params"}))

AgentResult == Struct(Present({"id"}) @@ OptionalAny({"result"}))

AgentError == Struct(Present({"id"}) @@ Plain({"error"}))

AgentResponse == Union(None,
    <<>>,
    <<Having({"id"}, Arm("Result", {"result"}, AgentResult)),
      Having({"id"}, Arm("Error", {"error"}, AgentError))>>)

Annotations == Struct(Optional({"_meta", "lastModified", "priority"})
    @@ OptionalList({"audience"}))

AudioContent == Struct(Required({"data", "mimeType"})
    @@ Optional({"_meta", "annotations"}))

AuthCapabilities == Struct(Defaulted({"terminal"}) @@ Optional({"_meta"}))

AuthMethodTerminalInline == Struct(Required({"id", "name", "type"})
    @@ Optional({"_meta", "description", "env"}) @@ OptionalList({"args"}))

AuthMethodAgent == Struct(Required({"id", "name"})
    @@ Optional({"_meta", "description"}))

AuthMethod == Union("type",
    ("terminal" :> Arm("Terminal", {"id", "name", "type"}, AuthMethodTerminalInline)),
    <<Arm("Agent", {"id", "name"}, AuthMethodAgent)>>)

AuthMethodTerminal == Struct(Required({"id", "name"})
    @@ Optional({"_meta", "description", "env"}) @@ OptionalList({"args"}))

AuthenticateRequest == Struct(Required({"methodId"}) @@ Optional({"_meta"}))

AuthenticateResponse == Struct(Optional({"_meta"}))

AvailableCommand == Struct(Required({"description", "name"})
    @@ Optional({"_meta", "input"}))

UnstructuredCommandInput == Struct(Required({"hint"}) @@ Optional({"_meta"}))

AvailableCommandInput == Union(None,
    <<>>,
    <<Arm("Unstructured", {"hint"}, UnstructuredCommandInput)>>)

AvailableCommandsUpdate == Struct(RequiredList({"availableCommands"})
    @@ Optional({"_meta"}))

BlobResourceContents == Struct(Required({"blob", "uri"})
    @@ Optional({"_meta", "mimeType"}))

BooleanConfigOptionCapabilities == Struct(Optional({"_meta"}))

BooleanPropertySchema ==
    Struct(Optional({"_meta", "default", "description", "title"}))

CancelNotification == Struct(Required({"sessionId"}) @@ Optional({"_meta"}))

CancelRequestNotification == Struct(Present({"requestId"})
    @@ Optional({"_meta"}))

ClientCapabilities == Struct(Defaulted({"auth", "fs", "terminal"})
    @@ Optional({"_meta", "elicitation", "session"}))

ClientNotification == Struct(Required({"method"}) @@ OptionalAny({"params"}))

ClientRequest == Struct(Required({"method"}) @@ Present({"id"})
    @@ OptionalAny({"params"}))

ClientResult == Struct(Present({"id"}) @@ OptionalAny({"result"}))

ClientError == Struct(Present({"id"}) @@ Plain({"error"}))

ClientResponse == Union(None,
    <<>>,
    <<Having({"id"}, Arm("Result", {"result"}, ClientResult)),
      Having({"id"}, Arm("Error", {"error"}, ClientError))>>)

ClientSessionCapabilities == Struct(Optional({"_meta", "configOptions"})
    @@ Lenient({"compaction", "notices"}))

CloseSessionRequest == Struct(Required({"sessionId"}) @@ Optional({"_meta"}))

CloseSessionResponse == Struct(Optional({"_meta"}))

CompactionSummaryChunk == Struct(Required({"compactionId", "content"})
    @@ Lenient({"_meta"}))

CompactionUpdate == Struct(Required({"compactionId", "status"})
    @@ Patch({"_meta", "error"}) @@ PatchItems({"summary"}))

CompleteElicitationNotification == Struct(Required({"elicitationId"})
    @@ Optional({"_meta"}))

ConfigOptionUpdate == Struct(RequiredList({"configOptions"})
    @@ Optional({"_meta"}))

Content == Struct(Required({"content"}) @@ Optional({"_meta"}))

ContentBlockText == Struct(Plain({"text", "type"})
    @@ Optional({"_meta", "annotations"}))

ContentBlockImage == Struct(Plain({"data", "mimeType", "type"})
    @@ Optional({"_meta", "annotations", "uri"}))

ContentBlockAudio == Struct(Plain({"data", "mimeType", "type"})
    @@ Optional({"_meta", "annotations"}))

ContentBlockResourceLink == Struct(Plain({"name", "type", "uri"})
    @@ Optional({"_meta", "annotations", "description", "mimeType", "size",
        "title"}))

ContentBlockResource == Struct(Plain({"resource", "type"})
    @@ Optional({"_meta", "annotations"}))

ContentBlock == Union("type",
    ("text" :> Arm("Text", {"text", "type"}, ContentBlockText) @@
    "image" :> Arm("Image", {"data", "mimeType", "type"}, ContentBlockImage) @@
    "audio" :> Arm("Audio", {"data", "mimeType", "type"}, ContentBlockAudio) @@
    "resource_link" :> Arm("ResourceLink", {"name", "type", "uri"}, ContentBlockResourceLink) @@
    "resource" :> Arm("Resource", {"resource", "type"}, ContentBlockResource)),
    <<>>)

ContentChunk == Struct(Required({"content"})
    @@ Optional({"_meta", "messageId"}))

Cost == Struct(Required({"amount", "currency"}) @@ Optional({"_meta"}))

CreateElicitationForm == Struct(Plain({"message", "mode", "requestedSchema"})
    @@ Optional({"_meta", "requestId", "sessionId", "toolCallId"}))

CreateElicitationUrl ==
    Struct(Plain({"elicitationId", "message", "mode", "url"})
    @@ Optional({"_meta", "requestId", "sessionId", "toolCallId"}))

CreateElicitationRequest == Union("mode",
    ("form" :> SomeScope(Arm("Form", {"message", "mode", "requestedSchema"},
        CreateElicitationForm)) @@
    "url" :> SomeScope(Arm("Url", {"elicitationId", "message", "mode", "url"},
        CreateElicitationUrl))),
    <<SomeScope(Arm("Other", {"message", "mode"}, Raw))>>)

CreateElicitationAccept == Struct(Plain({"action"})
    @@ Optional({"_meta", "content"}))

CreateElicitationDecline == Struct(Plain({"action"}) @@ Optional({"_meta"}))

CreateElicitationCancel == Struct(Plain({"action"}) @@ Optional({"_meta"}))

CreateElicitationResponse == Union("action",
    ("accept" :> Arm("Accept", {"action"}, CreateElicitationAccept) @@
    "decline" :> Arm("Decline", {"action"}, CreateElicitationDecline) @@
    "cancel" :> Arm("Cancel", {"action"}, CreateElicitationCancel)),
    <<Arm("Other", {"action"}, Raw)>>)

CreateTerminalRequest == Struct(Required({"command", "sessionId"})
    @@ Optional({"_meta", "cwd", "outputByteLimit"})
    @@ OptionalList({"args", "env"}))

CreateTerminalResponse == Struct(Required({"terminalId"})
    @@ Optional({"_meta"}))

CurrentModeUpdate == Struct(Required({"currentModeId"}) @@ Optional({"_meta"}))

DeleteSessionRequest == Struct(Required({"sessionId"}) @@ Optional({"_meta"}))

DeleteSessionResponse == Struct(Optional({"_meta"}))

Diff == Struct(Required({"newText", "path"}) @@ Optional({"_meta", "oldText"}))

ElicitationAcceptAction == Struct(Optional({"content"}))

ElicitationCapabilities == Struct(Optional({"_meta", "form", "url"}))

ElicitationFormCapabilities == Struct(Optional({"_meta"}))

ElicitationFormModeSession == Struct(Plain({"requestedSchema", "sessionId"})
    @@ Optional({"toolCallId"}))

ElicitationFormModeRequest == Struct(Present({"requestId"})
    @@ Plain({"requestedSchema"}))

ElicitationFormMode == Union(None,
    <<>>,
    <<Arm("Session", {"requestedSchema", "sessionId"}, ElicitationFormModeSession),
      Having({"requestId"}, Arm("Request", {"requestedSchema"}, ElicitationFormModeRequest))>>)

ElicitationPropertySchemaString == Struct(Plain({"type"})
    @@ Optional({"_meta", "default", "description", "format", "maxLength",
        "minLength", "pattern", "title"}) @@ OptionalList({"enum", "oneOf"}))

ElicitationPropertySchemaNumber == Struct(Plain({"type"})
    @@ Optional({"_meta", "default", "description", "maximum", "minimum",
        "title"}))

ElicitationPropertySchemaInteger == Struct(Plain({"type"})
    @@ Optional({"_meta", "default", "description", "maximum", "minimum",
        "title"}))

ElicitationPropertySchemaBoolean == Struct(Plain({"type"})
    @@ Optional({"_meta", "default", "description", "title"}))

ElicitationPropertySchemaArray == Struct(Plain({"items", "type"})
    @@ Optional({"_meta", "description", "maxItems", "minItems", "title"})
    @@ OptionalList({"default"}))

ElicitationPropertySchema == Union("type",
    ("string" :> Arm("String", {"type"}, ElicitationPropertySchemaString) @@
    "number" :> Arm("Number", {"type"}, ElicitationPropertySchemaNumber) @@
    "integer" :> Arm("Integer", {"type"}, ElicitationPropertySchemaInteger) @@
    "boolean" :> Arm("Boolean", {"type"}, ElicitationPropertySchemaBoolean) @@
    "array" :> Arm("Array", {"items", "type"}, ElicitationPropertySchemaArray)),
    <<Arm("Other", {"type"}, Raw)>>)

ElicitationRequestScope == Struct(Present({"requestId"}))

ElicitationSchema == Struct(Defaulted({"properties", "type"})
    @@ Optional({"_meta", "description", "title"})
    @@ OptionalList({"required"}))

ElicitationSessionScope == Struct(Required({"sessionId"})
    @@ Optional({"toolCallId"}))

ElicitationUrlCapabilities == Struct(Optional({"_meta"}))

ElicitationUrlModeSession ==
    Struct(Plain({"elicitationId", "sessionId", "url"})
    @@ Optional({"toolCallId"}))

ElicitationUrlModeRequest == Struct(Present({"requestId"})
    @@ Plain({"elicitationId", "url"}))

ElicitationUrlMode == Union(None,
    <<>>,
    <<Arm("Session", {"elicitationId", "sessionId", "url"}, ElicitationUrlModeSession),
      Having({"requestId"}, Arm("Request", {"elicitationId", "url"},
        ElicitationUrlModeRequest))>>)

EmbeddedResource == Struct(Required({"resource"})
    @@ Optional({"_meta", "annotations"}))

TextResourceContents == Struct(Required({"text", "uri"})
    @@ Optional({"_meta", "mimeType"}))

EmbeddedResourceResource == Union(None,
    <<>>,
    <<Arm("TextResourceContents", {"text", "uri"}, TextResourceContents),
      Arm("BlobResourceContents", {"blob", "uri"}, BlobResourceContents)>>)

EnumOption == Struct(Required({"const", "title"})
    @@ Optional({"_meta", "description"}))

EnvVariable == Struct(Required({"name", "value"}) @@ Optional({"_meta"}))

Error == Struct(Required({"code", "message"}) @@ OptionalAny({"data"}))

FileSystemCapabilities == Struct(Defaulted({"readTextFile", "writeTextFile"})
    @@ Optional({"_meta"}))

HttpHeader == Struct(Required({"name", "value"}) @@ Optional({"_meta"}))

ImageContent == Struct(Required({"data", "mimeType"})
    @@ Optional({"_meta", "annotations", "uri"}))

Implementation == Struct(Required({"name", "version"})
    @@ Optional({"_meta", "title"}))

InitializeRequest == Struct(Required({"protocolVersion"})
    @@ Defaulted({"clientCapabilities"}) @@ Optional({"_meta", "clientInfo"}))

InitializeResponse == Struct(Required({"protocolVersion"})
    @@ Defaulted({"agentCapabilities"}) @@ DefaultedItems({"authMethods"})
    @@ Optional({"_meta", "agentInfo"}))

IntegerPropertySchema ==
    Struct(Optional({"_meta", "default", "description", "maximum", "minimum",
        "title"}))

KillTerminalRequest == Struct(Required({"sessionId", "terminalId"})
    @@ Optional({"_meta"}))

KillTerminalResponse == Struct(Optional({"_meta"}))

ListSessionsRequest == Struct(Optional({"_meta", "cursor", "cwd"}))

ListSessionsResponse == Struct(RequiredList({"sessions"})
    @@ Optional({"_meta", "nextCursor"}))

LoadSessionRequest == Struct(Required({"cwd", "sessionId"})
    @@ ActionList({"mcpServers"}) @@ Optional({"_meta"})
    @@ OptionalList({"additionalDirectories"}))

LoadSessionResponse == Struct(Optional({"_meta", "modes"})
    @@ OptionalList({"configOptions"}))

LogoutCapabilities == Struct(Optional({"_meta"}))

LogoutRequest == Struct(Optional({"_meta"}))

LogoutResponse == Struct(Optional({"_meta"}))

McpCapabilities == Struct(Defaulted({"http", "sse"}) @@ Optional({"_meta"}))

McpServerHttpInline == Struct(Required({"name", "type", "url"})
    @@ ActionList({"headers"}) @@ Optional({"_meta"}))

McpServerSseInline == Struct(Required({"name", "type", "url"})
    @@ ActionList({"headers"}) @@ Optional({"_meta"}))

McpServerStdio == Struct(Required({"command", "name"})
    @@ ActionList({"args", "env"}) @@ Optional({"_meta"}))

McpServer == Union("type",
    ("http" :> Having({"headers"}, Arm("Http", {"name", "type", "url"}, McpServerHttpInline)) @@
    "sse" :> Having({"headers"}, Arm("Sse", {"name", "type", "url"}, McpServerSseInline))),
    <<Having({"args", "env"}, Arm("Stdio", {"command", "name"}, McpServerStdio))>>)

McpServerHttp == Struct(Required({"name", "url"}) @@ ActionList({"headers"})
    @@ Optional({"_meta"}))

McpServerSse == Struct(Required({"name", "url"}) @@ ActionList({"headers"})
    @@ Optional({"_meta"}))

MultiSelectItemsString == Struct(Plain({"type"}) @@ PlainList({"enum"})
    @@ Optional({"_meta"}))

TitledMultiSelectItems == Struct(RequiredList({"anyOf"})
    @@ Optional({"_meta"}))

MultiSelectItems == Union("type",
    ("string" :> Arm("String", {"enum", "type"}, MultiSelectItemsString)),
    <<Arm("Other", {"type"}, Raw),
      Arm("Titled", {"anyOf"}, TitledMultiSelectItems)>>)

MultiSelectPropertySchema == Struct(Required({"items"})
    @@ Optional({"_meta", "description", "maxItems", "minItems", "title"})
    @@ OptionalList({"default"}))

NewSessionRequest == Struct(Required({"cwd"}) @@ ActionList({"mcpServers"})
    @@ Optional({"_meta"}) @@ OptionalList({"additionalDirectories"}))

NewSessionResponse == Struct(Required({"sessionId"})
    @@ Optional({"_meta", "modes"}) @@ OptionalList({"configOptions"}))

Notice == Struct(Required({"severity", "title"})
    @@ Lenient({"_meta", "description"}))

NumberPropertySchema ==
    Struct(Optional({"_meta", "default", "description", "maximum", "minimum",
        "title"}))

PermissionOption == Struct(Required({"kind", "name", "optionId"})
    @@ Optional({"_meta"}))

Plan == Struct(RequiredList({"entries"}) @@ Optional({"_meta"}))

PlanEntry == Struct(Required({"content", "priority", "status"})
    @@ Optional({"_meta"}))

PromptCapabilities == Struct(Defaulted({"audio", "embeddedContext", "image"})
    @@ Optional({"_meta"}))

PromptRequest == Struct(Required({"sessionId"}) @@ RequiredList({"prompt"})
    @@ Optional({"_meta"}))

PromptResponse == Struct(Required({"stopReason"}) @@ Optional({"_meta"}))

ReadTextFileRequest == Struct(Required({"path", "sessionId"})
    @@ Optional({"_meta", "limit", "line"}))

ReadTextFileResponse == Struct(Required({"content"}) @@ Optional({"_meta"}))

ReleaseTerminalRequest == Struct(Required({"sessionId", "terminalId"})
    @@ Optional({"_meta"}))

ReleaseTerminalResponse == Struct(Optional({"_meta"}))

RequestPermissionOutcomeCancelled == Struct(Plain({"outcome"}))

RequestPermissionOutcomeSelected == Struct(Plain({"optionId", "outcome"})
    @@ Optional({"_meta"}))

RequestPermissionOutcome == Union("outcome",
    ("cancelled" :> Arm("Cancelled", {"outcome"}, RequestPermissionOutcomeCancelled) @@
    "selected" :> Arm("Selected", {"optionId", "outcome"}, RequestPermissionOutcomeSelected)),
    <<>>)

RequestPermissionRequest == Struct(Required({"sessionId", "toolCall"})
    @@ RequiredList({"options"}) @@ Optional({"_meta"}))

RequestPermissionResponse == Struct(Required({"outcome"})
    @@ Optional({"_meta"}))

ResourceLink == Struct(Required({"name", "uri"})
    @@ Optional({"_meta", "annotations", "description", "mimeType", "size",
        "title"}))

ResumeSessionRequest == Struct(Required({"cwd", "sessionId"})
    @@ Optional({"_meta"})
    @@ OptionalList({"additionalDirectories", "mcpServers"}))

ResumeSessionResponse == Struct(Optional({"_meta", "modes"})
    @@ OptionalList({"configOptions"}))

SelectedPermissionOutcome == Struct(Required({"optionId"})
    @@ Optional({"_meta"}))

SessionAdditionalDirectoriesCapabilities == Struct(Optional({"_meta"}))

SessionCapabilities ==
    Struct(Optional({"_meta", "additionalDirectories", "close", "delete",
        "list", "resume"}))

SessionCloseCapabilities == Struct(Optional({"_meta"}))

SessionConfigBoolean == Struct(Required({"currentValue"}))

SessionConfigOptionSelect ==
    Struct(Plain({"currentValue", "id", "name", "options", "type"})
    @@ Optional({"_meta", "category", "description"}))

SessionConfigOptionBoolean ==
    Struct(Plain({"currentValue", "id", "name", "type"})
    @@ Optional({"_meta", "category", "description"}))

SessionConfigOption == Union("type",
    ("select" :> Arm("Select", {"currentValue", "id", "name", "options", "type"},
        SessionConfigOptionSelect) @@
    "boolean" :> Arm("Boolean", {"currentValue", "id", "name", "type"},
        SessionConfigOptionBoolean)),
    <<>>)

SessionConfigOptionsCapabilities == Struct(Optional({"_meta", "boolean"}))

SessionConfigSelect == Struct(Required({"currentValue", "options"}))

SessionConfigSelectGroup == Struct(Required({"group", "name"})
    @@ RequiredList({"options"}) @@ Optional({"_meta"}))

SessionConfigSelectOption == Struct(Required({"name", "value"})
    @@ Optional({"_meta", "description"}))

SessionDeleteCapabilities == Struct(Optional({"_meta"}))

SessionInfo == Struct(Required({"cwd", "sessionId"})
    @@ Optional({"_meta", "title", "updatedAt"})
    @@ OptionalList({"additionalDirectories"}))

SessionInfoUpdate == Struct(Optional({"_meta"})
    @@ StrictPatch({"title", "updatedAt"}))

SessionListCapabilities == Struct(Optional({"_meta"}))

SessionMode == Struct(Required({"id", "name"})
    @@ Optional({"_meta", "description"}))

SessionModeState == Struct(Required({"currentModeId"})
    @@ RequiredList({"availableModes"}) @@ Optional({"_meta"}))

SessionNotification == Struct(Required({"sessionId", "update"})
    @@ Optional({"_meta"}))

SessionResumeCapabilities == Struct(Optional({"_meta"}))

SessionUpdateUserMessageChunk == Struct(Plain({"content", "sessionUpdate"})
    @@ Optional({"_meta", "messageId"}))

SessionUpdateAgentMessageChunk == Struct(Plain({"content", "sessionUpdate"})
    @@ Optional({"_meta", "messageId"}))

SessionUpdateAgentThoughtChunk == Struct(Plain({"content", "sessionUpdate"})
    @@ Optional({"_meta", "messageId"}))

SessionUpdateToolCall == Struct(Plain({"sessionUpdate", "title", "toolCallId"})
    @@ Optional({"_meta", "kind", "name", "status"})
    @@ OptionalAny({"rawInput", "rawOutput"})
    @@ OptionalList({"content", "locations"}))

SessionToolCallUpdate == Struct(Plain({"sessionUpdate", "toolCallId"})
    @@ Optional({"_meta", "kind", "name", "status", "title"})
    @@ OptionalAny({"rawInput", "rawOutput"})
    @@ OptionalList({"content", "locations"}))

SessionUpdatePlan == Struct(Plain({"sessionUpdate"}) @@ PlainList({"entries"})
    @@ Optional({"_meta"}))

SessionAvailableCommandsUpdate == Struct(Plain({"sessionUpdate"})
    @@ PlainList({"availableCommands"}) @@ Optional({"_meta"}))

SessionCurrentModeUpdate == Struct(Plain({"currentModeId", "sessionUpdate"})
    @@ Optional({"_meta"}))

SessionConfigOptionUpdate == Struct(Plain({"sessionUpdate"})
    @@ PlainList({"configOptions"}) @@ Optional({"_meta"}))

SessionSessionInfoUpdate == Struct(Required({"sessionUpdate"})
    @@ Optional({"_meta"}) @@ StrictPatch({"title", "updatedAt"}))

SessionUsageUpdate == Struct(Plain({"sessionUpdate", "size", "used"})
    @@ Optional({"_meta", "cost"}))

SessionUpdateNotice == Struct(Required({"sessionUpdate", "severity", "title"})
    @@ Lenient({"_meta", "description"}))

SessionCompactionUpdate ==
    Struct(Required({"compactionId", "sessionUpdate", "status"})
    @@ Patch({"_meta", "error"}) @@ PatchItems({"summary"}))

SessionUpdateCompactionSummaryChunk ==
    Struct(Required({"compactionId", "content", "sessionUpdate"})
    @@ Lenient({"_meta"}))

SessionUpdate == Union("sessionUpdate",
    ("user_message_chunk" :> Arm("UserMessageChunk", {"content", "sessionUpdate"},
        SessionUpdateUserMessageChunk) @@
    "agent_message_chunk" :> Arm("AgentMessageChunk", {"content", "sessionUpdate"},
        SessionUpdateAgentMessageChunk) @@
    "agent_thought_chunk" :> Arm("AgentThoughtChunk", {"content", "sessionUpdate"},
        SessionUpdateAgentThoughtChunk) @@
    "tool_call" :> Arm("ToolCall", {"sessionUpdate", "title", "toolCallId"},
        SessionUpdateToolCall) @@
    "tool_call_update" :> Arm("ToolCallUpdate", {"sessionUpdate", "toolCallId"},
        SessionToolCallUpdate) @@
    "plan" :> Arm("Plan", {"entries", "sessionUpdate"}, SessionUpdatePlan) @@
    "available_commands_update" :> Arm("AvailableCommandsUpdate", {"availableCommands",
        "sessionUpdate"}, SessionAvailableCommandsUpdate) @@
    "current_mode_update" :> Arm("CurrentModeUpdate", {"currentModeId", "sessionUpdate"},
        SessionCurrentModeUpdate) @@
    "config_option_update" :> Arm("ConfigOptionUpdate", {"configOptions", "sessionUpdate"},
        SessionConfigOptionUpdate) @@
    "session_info_update" :> Arm("SessionInfoUpdate", {"sessionUpdate"},
        SessionSessionInfoUpdate) @@
    "usage_update" :> Arm("UsageUpdate", {"sessionUpdate", "size", "used"},
        SessionUsageUpdate) @@
    "notice" :> Arm("Notice", {"sessionUpdate", "severity", "title"}, SessionUpdateNotice) @@
    "compaction_update" :> Arm("CompactionUpdate", {"compactionId", "sessionUpdate",
        "status"}, SessionCompactionUpdate) @@
    "compaction_summary_chunk" :> Arm("CompactionSummaryChunk", {"compactionId", "content",
        "sessionUpdate"}, SessionUpdateCompactionSummaryChunk)),
    <<>>)

SetSessionConfigOptionBoolean ==
    Struct(Plain({"configId", "sessionId", "type", "value"})
    @@ Optional({"_meta"}))

SetSessionConfigOptionValueId ==
    Struct(Plain({"configId", "sessionId", "value"}) @@ Optional({"_meta"}))

SetSessionConfigOptionRequest == Union("type",
    ("boolean" :> Arm("Boolean", {"configId", "sessionId", "type", "value"},
        SetSessionConfigOptionBoolean)),
    <<Arm("ValueId", {"configId", "sessionId", "value"}, SetSessionConfigOptionValueId)>>)

SetSessionConfigOptionResponse == Struct(RequiredList({"configOptions"})
    @@ Optional({"_meta"}))

SetSessionModeRequest == Struct(Required({"modeId", "sessionId"})
    @@ Optional({"_meta"}))

SetSessionModeResponse == Struct(Optional({"_meta"}))

StringMultiSelectItems == Struct(RequiredList({"enum"}) @@ Optional({"_meta"}))

StringPropertySchema ==
    Struct(Optional({"_meta", "default", "description", "format", "maxLength",
        "minLength", "pattern", "title"}) @@ OptionalList({"enum", "oneOf"}))

Terminal == Struct(Required({"terminalId"}) @@ Optional({"_meta"}))

TerminalExitStatus == Struct(Optional({"_meta", "exitCode", "signal"}))

TerminalOutputRequest == Struct(Required({"sessionId", "terminalId"})
    @@ Optional({"_meta"}))

TerminalOutputResponse == Struct(Required({"output", "truncated"})
    @@ Optional({"_meta", "exitStatus"}))

TextContent == Struct(Required({"text"}) @@ Optional({"_meta", "annotations"}))

ToolCall == Struct(Required({"title", "toolCallId"})
    @@ Optional({"_meta", "kind", "name", "status"})
    @@ OptionalAny({"rawInput", "rawOutput"})
    @@ OptionalList({"content", "locations"}))

ToolCallContentContent == Struct(Plain({"content", "type"})
    @@ Optional({"_meta"}))

ToolCallContentDiff == Struct(Plain({"newText", "path", "type"})
    @@ Optional({"_meta", "oldText"}))

ToolCallContentTerminal == Struct(Plain({"terminalId", "type"})
    @@ Optional({"_meta"}))

ToolCallContent == Union("type",
    ("content" :> Arm("Content", {"content", "type"}, ToolCallContentContent) @@
    "diff" :> Arm("Diff", {"newText", "path", "type"}, ToolCallContentDiff) @@
    "terminal" :> Arm("Terminal", {"terminalId", "type"}, ToolCallContentTerminal)),
    <<>>)

ToolCallLocation == Struct(Required({"path"}) @@ Optional({"_meta", "line"}))

ToolCallUpdate == Struct(Required({"toolCallId"})
    @@ Optional({"_meta", "kind", "name", "status", "title"})
    @@ OptionalAny({"rawInput", "rawOutput"})
    @@ OptionalList({"content", "locations"}))

UsageUpdate == Struct(Required({"size", "used"})
    @@ Optional({"_meta", "cost"}))

WaitForTerminalExitRequest == Struct(Required({"sessionId", "terminalId"})
    @@ Optional({"_meta"}))

WaitForTerminalExitResponse ==
    Struct(Optional({"_meta", "exitCode", "signal"}))

WriteTextFileRequest == Struct(Required({"content", "path", "sessionId"})
    @@ Optional({"_meta"}))

WriteTextFileResponse == Struct(Optional({"_meta"}))

RequestId == Plains(<<
    Form("Null", {"null", "object"}, [v \in {"null", "object"} |-> "null"]),
    Form("Number", {"integer"}, Keeps({"integer"})),
    Form("Str", {"string"}, Keeps({"string"}))>>)
ErrorCode == Plains(<<
    Form("ParseError", {"-32700"}, Keeps({"-32700"})),
    Form("InvalidRequest", {"-32600"}, Keeps({"-32600"})),
    Form("MethodNotFound", {"-32601"}, Keeps({"-32601"})),
    Form("InvalidParams", {"-32602"}, Keeps({"-32602"})),
    Form("InternalError", {"-32603"}, Keeps({"-32603"})),
    Form("RequestCancelled", {"-32800"}, Keeps({"-32800"})),
    Form("AuthenticationRequired", {"-32000"}, Keeps({"-32000"})),
    Form("ResourceNotFound", {"-32002"}, Keeps({"-32002"})),
    Form("Other", {"null", "integer"}, [v \in {"null", "integer"} |-> "integer"])>>)
ElicitationContentValue == Plains(<<
    Form("String", {"null", "string"}, [v \in {"null", "string"} |-> "string"]),
    Form("Integer", {"integer"}, Keeps({"integer"})),
    Form("Number", {"whole", "fraction", "huge"},
        "whole" :> "integer" @@ Keeps({"fraction", "huge"})),
    Form("Boolean", {"boolean"}, Keeps({"boolean"})),
    Form("StringArray", {"strings", "empty"}, Keeps({"strings", "empty"}))>>)
SessionConfigSelectOptions == Plains(<<
    Form("Ungrouped", {"null", "empty", "options", "both"},
        "both" :> "options" @@ Keeps({"null", "empty", "options"})),
    Form("Grouped", {"groups"}, Keeps({"groups"}))>>)

\* The types a message or a field of one may have; the bodies of arms are
\* reached through their unions.
Types == [
    AgentAuthCapabilities |-> AgentAuthCapabilities,
    AgentCapabilities |-> AgentCapabilities, AgentNotification |-> AgentNotification,
    AgentRequest |-> AgentRequest, AgentResponse |-> AgentResponse,
    Annotations |-> Annotations, AudioContent |-> AudioContent,
    AuthCapabilities |-> AuthCapabilities, AuthMethod |-> AuthMethod,
    AuthMethodTerminal |-> AuthMethodTerminal, AuthenticateRequest |-> AuthenticateRequest,
    AuthenticateResponse |-> AuthenticateResponse, AvailableCommand |-> AvailableCommand,
    AvailableCommandInput |-> AvailableCommandInput,
    AvailableCommandsUpdate |-> AvailableCommandsUpdate,
    BooleanConfigOptionCapabilities |-> BooleanConfigOptionCapabilities,
    BooleanPropertySchema |-> BooleanPropertySchema,
    CancelNotification |-> CancelNotification,
    CancelRequestNotification |-> CancelRequestNotification,
    ClientCapabilities |-> ClientCapabilities, ClientNotification |-> ClientNotification,
    ClientRequest |-> ClientRequest, ClientResponse |-> ClientResponse,
    ClientSessionCapabilities |-> ClientSessionCapabilities,
    CloseSessionRequest |-> CloseSessionRequest,
    CloseSessionResponse |-> CloseSessionResponse,
    CompactionSummaryChunk |-> CompactionSummaryChunk,
    CompactionUpdate |-> CompactionUpdate,
    CompleteElicitationNotification |-> CompleteElicitationNotification,
    ConfigOptionUpdate |-> ConfigOptionUpdate, Content |-> Content,
    ContentBlock |-> ContentBlock, ContentChunk |-> ContentChunk, Cost |-> Cost,
    CreateElicitationRequest |-> CreateElicitationRequest,
    CreateElicitationResponse |-> CreateElicitationResponse,
    CreateTerminalRequest |-> CreateTerminalRequest,
    CreateTerminalResponse |-> CreateTerminalResponse,
    CurrentModeUpdate |-> CurrentModeUpdate, DeleteSessionRequest |-> DeleteSessionRequest,
    DeleteSessionResponse |-> DeleteSessionResponse, Diff |-> Diff,
    ElicitationAcceptAction |-> ElicitationAcceptAction,
    ElicitationCapabilities |-> ElicitationCapabilities,
    ElicitationFormCapabilities |-> ElicitationFormCapabilities,
    ElicitationFormMode |-> ElicitationFormMode,
    ElicitationPropertySchema |-> ElicitationPropertySchema,
    ElicitationRequestScope |-> ElicitationRequestScope,
    ElicitationSchema |-> ElicitationSchema,
    ElicitationSessionScope |-> ElicitationSessionScope,
    ElicitationUrlCapabilities |-> ElicitationUrlCapabilities,
    ElicitationUrlMode |-> ElicitationUrlMode, EmbeddedResource |-> EmbeddedResource,
    EmbeddedResourceResource |-> EmbeddedResourceResource, EnumOption |-> EnumOption,
    EnvVariable |-> EnvVariable, Error |-> Error,
    FileSystemCapabilities |-> FileSystemCapabilities, HttpHeader |-> HttpHeader,
    ImageContent |-> ImageContent, Implementation |-> Implementation,
    InitializeRequest |-> InitializeRequest, InitializeResponse |-> InitializeResponse,
    IntegerPropertySchema |-> IntegerPropertySchema,
    KillTerminalRequest |-> KillTerminalRequest,
    KillTerminalResponse |-> KillTerminalResponse,
    ListSessionsRequest |-> ListSessionsRequest,
    ListSessionsResponse |-> ListSessionsResponse,
    LoadSessionRequest |-> LoadSessionRequest, LoadSessionResponse |-> LoadSessionResponse,
    LogoutCapabilities |-> LogoutCapabilities, LogoutRequest |-> LogoutRequest,
    LogoutResponse |-> LogoutResponse, McpCapabilities |-> McpCapabilities,
    McpServer |-> McpServer, McpServerHttp |-> McpServerHttp, McpServerSse |-> McpServerSse,
    MultiSelectItems |-> MultiSelectItems,
    MultiSelectPropertySchema |-> MultiSelectPropertySchema,
    NewSessionRequest |-> NewSessionRequest, NewSessionResponse |-> NewSessionResponse,
    Notice |-> Notice, NumberPropertySchema |-> NumberPropertySchema,
    PermissionOption |-> PermissionOption, Plan |-> Plan, PlanEntry |-> PlanEntry,
    PromptCapabilities |-> PromptCapabilities, PromptRequest |-> PromptRequest,
    PromptResponse |-> PromptResponse, ReadTextFileRequest |-> ReadTextFileRequest,
    ReadTextFileResponse |-> ReadTextFileResponse,
    ReleaseTerminalRequest |-> ReleaseTerminalRequest,
    ReleaseTerminalResponse |-> ReleaseTerminalResponse,
    RequestPermissionOutcome |-> RequestPermissionOutcome,
    RequestPermissionRequest |-> RequestPermissionRequest,
    RequestPermissionResponse |-> RequestPermissionResponse, ResourceLink |-> ResourceLink,
    ResumeSessionRequest |-> ResumeSessionRequest,
    ResumeSessionResponse |-> ResumeSessionResponse,
    SelectedPermissionOutcome |-> SelectedPermissionOutcome,
    SessionAdditionalDirectoriesCapabilities |-> SessionAdditionalDirectoriesCapabilities,
    SessionCapabilities |-> SessionCapabilities,
    SessionCloseCapabilities |-> SessionCloseCapabilities,
    SessionConfigBoolean |-> SessionConfigBoolean,
    SessionConfigOption |-> SessionConfigOption,
    SessionConfigOptionsCapabilities |-> SessionConfigOptionsCapabilities,
    SessionConfigSelect |-> SessionConfigSelect,
    SessionConfigSelectGroup |-> SessionConfigSelectGroup,
    SessionConfigSelectOption |-> SessionConfigSelectOption,
    SessionDeleteCapabilities |-> SessionDeleteCapabilities, SessionInfo |-> SessionInfo,
    SessionInfoUpdate |-> SessionInfoUpdate,
    SessionListCapabilities |-> SessionListCapabilities, SessionMode |-> SessionMode,
    SessionModeState |-> SessionModeState, SessionNotification |-> SessionNotification,
    SessionResumeCapabilities |-> SessionResumeCapabilities,
    SessionUpdate |-> SessionUpdate,
    SetSessionConfigOptionRequest |-> SetSessionConfigOptionRequest,
    SetSessionConfigOptionResponse |-> SetSessionConfigOptionResponse,
    SetSessionModeRequest |-> SetSessionModeRequest,
    SetSessionModeResponse |-> SetSessionModeResponse,
    StringMultiSelectItems |-> StringMultiSelectItems,
    StringPropertySchema |-> StringPropertySchema, Terminal |-> Terminal,
    TerminalExitStatus |-> TerminalExitStatus,
    TerminalOutputRequest |-> TerminalOutputRequest,
    TerminalOutputResponse |-> TerminalOutputResponse, TextContent |-> TextContent,
    ToolCall |-> ToolCall, ToolCallContent |-> ToolCallContent,
    ToolCallLocation |-> ToolCallLocation, ToolCallUpdate |-> ToolCallUpdate,
    UsageUpdate |-> UsageUpdate, WaitForTerminalExitRequest |-> WaitForTerminalExitRequest,
    WaitForTerminalExitResponse |-> WaitForTerminalExitResponse,
    WriteTextFileRequest |-> WriteTextFileRequest,
    WriteTextFileResponse |-> WriteTextFileResponse,
    ElicitationContentValue |-> ElicitationContentValue, ErrorCode |-> ErrorCode,
    RequestId |-> RequestId, SessionConfigSelectOptions |-> SessionConfigSelectOptions]
===============================================================================
