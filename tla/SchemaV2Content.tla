-------------------------- MODULE SchemaV2Content ---------------------------
(***************************************************************************)
(* What the messages of version 2 of the protocol carry                    *)
(* (experimental/v2/types_gen.go): blocks of content, diffs, and           *)
(* elicitations with the schemas of their forms.  As in SchemaV2, each has *)
(* the rule of every field of a struct, and the arms of a union.           *)
(***************************************************************************)
EXTENDS WireTypes

Annotations == Struct(Lenient({"_meta", "lastModified", "priority"})
    @@ Items({"audience"}))

AudioContent == Struct(Required({"data", "mimeType"})
    @@ Lenient({"_meta", "annotations"}))

BlobResourceContents == Struct(Required({"blob", "uri"})
    @@ Lenient({"_meta", "mimeType"}))

BooleanPropertySchema ==
    Struct(Lenient({"_meta", "default", "description", "title"}))

CompleteElicitationNotification == Struct(Required({"elicitationId"})
    @@ Lenient({"_meta"}))

Content == Struct(Required({"content"}) @@ Lenient({"_meta"}))

ContentBlockText == Struct(Required({"text", "type"})
    @@ Lenient({"_meta", "annotations"}))

ContentBlockImage == Struct(Required({"data", "mimeType", "type"})
    @@ Lenient({"_meta", "annotations", "uri"}))

ContentBlockAudio == Struct(Required({"data", "mimeType", "type"})
    @@ Lenient({"_meta", "annotations"}))

ContentBlockResourceLink == Struct(Required({"name", "type", "uri"})
    @@ Lenient({"_meta", "annotations", "description", "mimeType", "size",
        "title"}) @@ Items({"icons"}))

ContentBlockResource == Struct(Required({"resource", "type"})
    @@ Lenient({"_meta", "annotations"}))

ContentBlock == Union("type",
    ("text" :> Arm("Text", {"text", "type"}, ContentBlockText) @@
    "image" :> Arm("Image", {"data", "mimeType", "type"}, ContentBlockImage) @@
    "audio" :> Arm("Audio", {"data", "mimeType", "type"}, ContentBlockAudio) @@
    "resource_link" :> Arm("ResourceLink", {"name", "type", "uri"}, ContentBlockResourceLink) @@
    "resource" :> Arm("Resource", {"resource", "type"}, ContentBlockResource)),
    <<Arm("Other", {"type"}, Raw)>>)

CreateElicitationForm == Struct(Required({"mode", "requestedSchema"})
    @@ Plain({"message"}) @@ Optional({"requestId", "sessionId"})
    @@ Lenient({"_meta", "toolCallId"}))

CreateElicitationUrl == Struct(Required({"elicitationId", "mode", "url"})
    @@ Plain({"message"}) @@ Optional({"requestId", "sessionId"})
    @@ Lenient({"_meta", "toolCallId"}))

CreateElicitationRequest == Union("mode",
    ("form" :> OneScope(Arm("Form", {"message", "mode", "requestedSchema"},
        CreateElicitationForm)) @@
    "url" :> OneScope(Arm("Url", {"elicitationId", "message", "mode", "url"},
        CreateElicitationUrl))),
    <<OneScope(Arm("Other", {"message", "mode"}, Raw))>>)

CreateElicitationAccept == Struct(Required({"action"}) @@ Optional({"content"})
    @@ Lenient({"_meta"}))

CreateElicitationDecline == Struct(Required({"action"}) @@ Lenient({"_meta"}))

CreateElicitationCancel == Struct(Required({"action"}) @@ Lenient({"_meta"}))

CreateElicitationResponse == Union("action",
    ("accept" :> Arm("Accept", {"action"}, CreateElicitationAccept) @@
    "decline" :> Arm("Decline", {"action"}, CreateElicitationDecline) @@
    "cancel" :> Arm("Cancel", {"action"}, CreateElicitationCancel)),
    <<Arm("Other", {"action"}, Raw)>>)

Diff == Struct(Replacement({"changes"}) @@ Lenient({"_meta", "patch"}))

DiffChangeAdd == Struct(Required({"operation", "path"})
    @@ Lenient({"_meta", "fileType", "mimeType"}))

DiffChangeDelete == Struct(Required({"operation", "path"})
    @@ Lenient({"_meta", "fileType", "mimeType"}))

DiffChangeModify == Struct(Required({"operation", "path"})
    @@ Lenient({"_meta", "fileType", "mimeType"}))

DiffChangeMove == Struct(Required({"oldPath", "operation", "path"})
    @@ Lenient({"_meta", "fileType", "mimeType"}))

DiffChangeCopy == Struct(Required({"oldPath", "operation", "path"})
    @@ Lenient({"_meta", "fileType", "mimeType"}))

DiffChange == Union("operation",
    ("add" :> Arm("Add", {"operation", "path"}, DiffChangeAdd) @@
    "delete" :> Arm("Delete", {"operation", "path"}, DiffChangeDelete) @@
    "modify" :> Arm("Modify", {"operation", "path"}, DiffChangeModify) @@
    "move" :> Arm("Move", {"oldPath", "operation", "path"}, DiffChangeMove) @@
    "copy" :> Arm("Copy", {"oldPath", "operation", "path"}, DiffChangeCopy)),
    <<Arm("Other", {"operation"}, Raw)>>)

DiffPatch == Struct(Required({"format", "text"}) @@ Lenient({"_meta"}))

DiffPathChange == Struct(Required({"path"}))

DiffPathPairChange == Struct(Required({"oldPath", "path"}))

ElicitationAcceptAction == Struct(Optional({"content"}))

ElicitationCapabilities == Struct(Lenient({"_meta", "form", "url"}))

ElicitationFormCapabilities == Struct(Lenient({"_meta"}))

ElicitationFormModeSession == Struct(Required({"sessionId"})
    @@ Plain({"requestedSchema"}) @@ Lenient({"toolCallId"}))

ElicitationFormModeRequest == Struct(Required({"requestId"})
    @@ Plain({"requestedSchema"}))

ElicitationFormMode == Union(None,
    <<>>,
    <<OneScope(Arm("Session", {"requestedSchema", "sessionId"}, ElicitationFormModeSession)),
      OneScope(Arm("Request", {"requestId", "requestedSchema"}, ElicitationFormModeRequest))>>)

ElicitationPropertySchemaString == Struct(Required({"type"})
    @@ Optional({"format", "maxLength", "minLength", "pattern"})
    @@ OptionalNonEmptyList({"enum", "oneOf"})
    @@ Lenient({"_meta", "default", "description", "title"}))

ElicitationPropertySchemaNumber == Struct(Required({"type"})
    @@ Optional({"maximum", "minimum"})
    @@ Lenient({"_meta", "default", "description", "title"}))

ElicitationPropertySchemaInteger == Struct(Required({"type"})
    @@ Optional({"maximum", "minimum"})
    @@ Lenient({"_meta", "default", "description", "title"}))

ElicitationPropertySchemaBoolean == Struct(Required({"type"})
    @@ Lenient({"_meta", "default", "description", "title"}))

ElicitationPropertySchemaArray == Struct(Required({"items", "type"})
    @@ Optional({"maxItems", "minItems"})
    @@ Lenient({"_meta", "description", "title"}) @@ Items({"default"}))

ElicitationPropertySchema == Union("type",
    ("string" :> Arm("String", {"type"}, ElicitationPropertySchemaString) @@
    "number" :> Arm("Number", {"type"}, ElicitationPropertySchemaNumber) @@
    "integer" :> Arm("Integer", {"type"}, ElicitationPropertySchemaInteger) @@
    "boolean" :> Arm("Boolean", {"type"}, ElicitationPropertySchemaBoolean) @@
    "array" :> Arm("Array", {"items", "type"}, ElicitationPropertySchemaArray)),
    <<Arm("Other", {"type"}, Raw)>>)

ElicitationRequestScope == Struct(Required({"requestId"}))

ElicitationSchema == Struct(Required({"properties", "type"})
    @@ OptionalList({"required"})
    @@ Lenient({"_meta", "description", "title"}))

ElicitationSessionScope == Struct(Required({"sessionId"})
    @@ Lenient({"toolCallId"}))

ElicitationUrlCapabilities == Struct(Lenient({"_meta"}))

ElicitationUrlModeSession == Struct(Required({"sessionId"})
    @@ Plain({"elicitationId", "url"}) @@ Lenient({"toolCallId"}))

ElicitationUrlModeRequest == Struct(Required({"requestId"})
    @@ Plain({"elicitationId", "url"}))

ElicitationUrlMode == Union(None,
    <<>>,
    <<OneScope(Arm("Session", {"elicitationId", "sessionId", "url"},
        ElicitationUrlModeSession)),
      OneScope(Arm("Request", {"elicitationId", "requestId", "url"},
        ElicitationUrlModeRequest))>>)

EmbeddedResource == Struct(Required({"resource"})
    @@ Lenient({"_meta", "annotations"}))

TextResourceContents == Struct(Required({"text", "uri"})
    @@ Lenient({"_meta", "mimeType"}))

EmbeddedResourceResource == Union(None,
    <<>>,
    <<Arm("TextResourceContents", {"text", "uri"}, TextResourceContents),
      Arm("BlobResourceContents", {"blob", "uri"}, BlobResourceContents)>>)

EnumOption == Struct(Required({"const", "title"})
    @@ Lenient({"_meta", "description"}))

Icon == Struct(Required({"src"}) @@ Lenient({"_meta", "mimeType", "theme"})
    @@ Items({"sizes"}))

ImageContent == Struct(Required({"data", "mimeType"})
    @@ Lenient({"_meta", "annotations", "uri"}))

IntegerPropertySchema == Struct(Optional({"maximum", "minimum"})
    @@ Lenient({"_meta", "default", "description", "title"}))

MultiSelectItemsString == Struct(Required({"type"}) @@ NonEmptyList({"enum"})
    @@ Lenient({"_meta"}))

TitledMultiSelectItems == Struct(NonEmptyList({"anyOf"}) @@ Lenient({"_meta"}))

MultiSelectItems == Union("type",
    ("string" :> Arm("String", {"enum", "type"}, MultiSelectItemsString)),
    <<Arm("Other", {"type"}, Raw),
      Arm("Titled", {"anyOf"}, TitledMultiSelectItems)>>)

MultiSelectPropertySchema == Struct(Required({"items"})
    @@ Optional({"maxItems", "minItems"})
    @@ Lenient({"_meta", "description", "title"}) @@ Items({"default"}))

NumberPropertySchema == Struct(Optional({"maximum", "minimum"})
    @@ Lenient({"_meta", "default", "description", "title"}))

ResourceLink == Struct(Required({"name", "uri"})
    @@ Lenient({"_meta", "annotations", "description", "mimeType", "size",
        "title"}) @@ Items({"icons"}))

StringMultiSelectItems == Struct(NonEmptyList({"enum"}) @@ Lenient({"_meta"}))

StringPropertySchema ==
    Struct(Optional({"format", "maxLength", "minLength", "pattern"})
    @@ OptionalNonEmptyList({"enum", "oneOf"})
    @@ Lenient({"_meta", "default", "description", "title"}))

TextContent == Struct(Required({"text"}) @@ Lenient({"_meta", "annotations"}))

ElicitationContentValue ==
    LET other == {"null", "object", "options", "groups", "both", "malformed"}
    IN Plains(<<
        Form("String", {"string"}, Keeps({"string"})),
        Form("Integer", {"integer"}, Keeps({"integer"})),
        Form("Number", {"whole", "fraction", "huge"},
            "whole" :> "integer" @@ Keeps({"fraction", "huge"})),
        Form("Boolean", {"boolean"}, Keeps({"boolean"})),
        Form("StringArray", {"strings", "empty"}, Keeps({"strings", "empty"})),
        Form("Other", other, Keeps(other))>>)
=============================================================================
