---------------------------- MODULE PropertyTables ----------------------------
(***************************************************************************)
(* The tables of driver/ZinkosDevice.cpp from which the HAL learns what    *)
(* the driver has: for each object, whether it has a property, how large   *)
(* the answer is and what the answer is, each in a switch statement of its *)
(* own.  The HAL (external) asks in three calls, and between two of them   *)
(* the browse thread may publish or hide the device.  Of an answer the     *)
(* model keeps its size and the objects it names.                          *)
(***************************************************************************)
EXTENDS Integers, Sequences, SequencesExt

VARIABLES
    published,  \* devicePublished
    known,      \* the objects the HAL knows of
    hal,        \* the HAL's query: "none"; "size" and "data", the next call; "done", "set"
    query,      \* the object, selector and scope it asks about
    size,       \* what GetPropertyDataSize returned
    answer,     \* what GetPropertyData returned
    steady      \* history: the publication has not changed since the query began

vars == <<published, known, hal, query, size, answer, steady>>

Objects == {"PlugIn", "Device", "Stream", "Volume", "Mute"}
Controls == {"Volume", "Mute"}
Scopes == {"Global", "Output", "Input"}
HasOutput(scope) == scope \in {"Global", "Output"}

\* sizeof of the types, in bytes.
Word == 4           \* UInt32, Float32, AudioObjectID, AudioClassID
Pointer == 8        \* CFStringRef; Float64 is as large
ValueRange == 16
Format == 40
RangedFormat == Format + ValueRange
ChannelLayout == 12 + 2 * 20    \* with a description for either channel
-------------------------------------------------------------------------------
(* HasProperty *)

Shared == {"BaseClass", "Class", "Owner", "OwnedObjects"}

PluginProperties ==
    Shared \cup {"Manufacturer", "DeviceList", "UIDToDevice", "ResourceBundle"}

DeviceProperties ==
    Shared \cup {"Name", "Manufacturer", "DeviceUID", "ModelUID", "TransportType",
        "IsAlive", "IsRunning", "CanBeDefault", "CanBeSystemDefault", "Streams",
        "RelatedDevices", "ControlList", "Latency", "SafetyOffset", "SampleRate",
        "SampleRates", "ClockDomain", "TimeStampPeriod", "IsHidden", "StereoChannels",
        "ChannelLayout", "BufferSize", "BufferSizeRange"}

StreamProperties ==
    Shared \cup {"Name", "IsActive", "Direction", "TerminalType", "StartingChannel",
        "Latency", "VirtualFormat", "PhysicalFormat", "VirtualFormats", "PhysicalFormats"}

ControlProperties(object) ==
    Shared \cup {"Scope", "Element"}
        \cup IF object = "Volume" THEN {"Scalar", "Decibel", "DecibelRange"} ELSE {"Value"}

Selectors == PluginProperties \cup DeviceProperties \cup StreamProperties
                \cup UNION {ControlProperties(c) : c \in Controls}

HasProperty(object, selector) ==
    \/ object = "PlugIn" /\ selector \in PluginProperties
    \/ object = "Device" /\ selector \in DeviceProperties
    \/ object = "Stream" /\ selector \in StreamProperties
    \/ object \in Controls /\ selector \in ControlProperties(object)
-------------------------------------------------------------------------------
(* GetPropertyDataSize *)

\* A table is a set of rows; the selectors of no row are unknown properties.
Sized(selectors, bytes) == [of |-> selectors, bytes |-> bytes]

\* mutated form: the size of the list does not follow the publication
PluginSizesAlways == {
    Sized({"BaseClass", "Class", "Owner", "UIDToDevice", "OwnedObjects", "DeviceList"}, Word),
    Sized({"Manufacturer", "ResourceBundle"}, Pointer)}

PluginSizes == {
    Sized({"BaseClass", "Class", "Owner", "UIDToDevice"}, Word),
    Sized({"Manufacturer", "ResourceBundle"}, Pointer),
    Sized({"OwnedObjects", "DeviceList"}, IF published THEN Word ELSE 0)}

DeviceSizes(scope) == {
    Sized({"BaseClass", "Class", "Owner", "TransportType", "IsAlive", "IsRunning",
           "CanBeDefault", "CanBeSystemDefault", "RelatedDevices", "Latency",
           "SafetyOffset", "ClockDomain", "TimeStampPeriod", "IsHidden", "BufferSize"}, Word),
    Sized({"Name", "Manufacturer", "DeviceUID", "ModelUID", "SampleRate"}, Pointer),
    Sized({"OwnedObjects"}, IF HasOutput(scope) THEN 3 * Word ELSE 0),
    Sized({"Streams"}, IF HasOutput(scope) THEN Word ELSE 0),
    Sized({"ControlList", "StereoChannels"}, 2 * Word),
    Sized({"SampleRates", "BufferSizeRange"}, ValueRange),
    Sized({"ChannelLayout"}, ChannelLayout)}

StreamSizes == {
    Sized({"BaseClass", "Class", "Owner", "IsActive", "Direction", "TerminalType",
           "StartingChannel", "Latency"}, Word),
    Sized({"OwnedObjects"}, 0),
    Sized({"Name"}, Pointer),
    Sized({"VirtualFormat", "PhysicalFormat"}, Format),
    Sized({"VirtualFormats", "PhysicalFormats"}, RangedFormat)}

\* mutated form: the mute has no row
ControlSizesNoMute == {
    Sized({"BaseClass", "Class", "Owner", "Scope", "Element", "Scalar", "Decibel"}, Word),
    Sized({"OwnedObjects"}, 0),
    Sized({"DecibelRange"}, ValueRange)}

\* One table for both controls.
ControlSizes == {
    Sized({"BaseClass", "Class", "Owner", "Scope", "Element", "Scalar", "Decibel", "Value"},
          Word),
    Sized({"OwnedObjects"}, 0),
    Sized({"DecibelRange"}, ValueRange)}

Unknown == -1
SizeIn(table, selector) ==
    IF \E row \in table : selector \in row.of
    THEN (CHOOSE row \in table : selector \in row.of).bytes
    ELSE Unknown

Size(object, selector, scope) ==
    SizeIn(CASE object = "PlugIn" -> PluginSizes
             [] object = "Device" -> DeviceSizes(scope)
             [] object = "Stream" -> StreamSizes
             [] object \in Controls -> ControlSizes, selector)
-------------------------------------------------------------------------------
(* GetPropertyData *)

Plain(selectors, bytes) == [of |-> selectors, bytes |-> bytes, ids |-> <<>>]
Ids(selectors, ids) == [of |-> selectors, bytes |-> Word * Len(ids), ids |-> ids]

PluginData == {
    Plain({"BaseClass", "Class", "Owner"}, Word),
    Plain({"Manufacturer", "ResourceBundle"}, Pointer),
    Ids({"OwnedObjects", "DeviceList"}, IF published THEN <<"Device">> ELSE <<>>),
    Ids({"UIDToDevice"}, <<"Device">>)}

CutShort(ids, room) == SubSeq(ids, 1, 2)  \* mutated form: one object too few
\* The owned objects are cut to the caller's room.
Cut(ids, room) ==
    LET n == room \div Word IN SubSeq(ids, 1, IF n < Len(ids) THEN n ELSE Len(ids))

DeviceData(scope, room) == {
    Plain({"BaseClass", "Class", "TransportType", "IsAlive", "IsRunning", "CanBeDefault",
           "CanBeSystemDefault", "Latency", "SafetyOffset", "ClockDomain",
           "TimeStampPeriod", "IsHidden", "BufferSize"}, Word),
    Plain({"Name", "Manufacturer", "DeviceUID", "ModelUID", "SampleRate"}, Pointer),
    Ids({"Owner"}, <<"PlugIn">>),
    Ids({"OwnedObjects"},
        IF HasOutput(scope)
        THEN Cut(<<"Stream", "Volume", "Mute">>, room) ELSE <<>>),
    Ids({"Streams"}, IF HasOutput(scope) THEN <<"Stream">> ELSE <<>>),
    Ids({"RelatedDevices"}, <<"Device">>),
    Ids({"ControlList"}, <<"Volume", "Mute">>),
    Plain({"StereoChannels"}, 2 * Word),
    Plain({"SampleRates", "BufferSizeRange"}, ValueRange),
    Plain({"ChannelLayout"}, ChannelLayout)}

StreamData == {
    Plain({"BaseClass", "Class", "IsActive", "Direction", "TerminalType", "StartingChannel",
           "Latency"}, Word),
    Ids({"Owner"}, <<"Device">>),
    Ids({"OwnedObjects"}, <<>>),
    Plain({"Name"}, Pointer),
    Plain({"VirtualFormat", "PhysicalFormat"}, Format),
    Plain({"VirtualFormats", "PhysicalFormats"}, RangedFormat)}

ControlData == {
    Plain({"BaseClass", "Class", "Scope", "Element", "Scalar", "Decibel", "Value"}, Word),
    Ids({"Owner"}, <<"Device">>),
    Ids({"OwnedObjects"}, <<>>),
    Plain({"DecibelRange"}, ValueRange)}

NoAnswer == [bytes |-> Unknown, ids |-> <<>>]
AnswerIn(table, selector) ==
    IF \E row \in table : selector \in row.of
    THEN LET row == CHOOSE r \in table : selector \in r.of
         IN  [bytes |-> row.bytes, ids |-> row.ids]
    ELSE NoAnswer

Data(object, selector, scope, room) ==
    AnswerIn(CASE object = "PlugIn" -> PluginData
               [] object = "Device" -> DeviceData(scope, room)
               [] object = "Stream" -> StreamData
               [] object \in Controls -> ControlData, selector)
-------------------------------------------------------------------------------
(* IsPropertySettable, SetPropertyData *)

IsPropertySettable(object, selector) ==
    \/ object = "Volume" /\ selector \in {"Scalar", "Decibel"}
    \/ object = "Mute" /\ selector = "Value"

Taken(object, selector) ==
    <<object, selector>> \in {<<"Volume", "Scalar">>, <<"Volume", "Decibel">>, <<"Mute", "Value">>}
-------------------------------------------------------------------------------
Init ==
    /\ published \in BOOLEAN
    /\ known = {"PlugIn"}
    /\ hal = "none" /\ query = [object |-> "PlugIn", selector |-> "Class", scope |-> "Global"]
    /\ size = 0 /\ answer = NoAnswer /\ steady = TRUE

\* PublishDevice and UnpublishDevice, on other threads.
Publish ==
    /\ published' = ~published
    /\ steady' = FALSE
    /\ UNCHANGED <<known, hal, query, size, answer>>

\* The HAL asks an object it knows for a property that the object has.
Ask(object, selector, scope) ==
    /\ hal \notin {"size", "data"} /\ object \in known
    /\ HasProperty(object, selector)
    /\ hal' = "size" /\ steady' = TRUE
    /\ query' = [object |-> object, selector |-> selector, scope |-> scope]
    /\ size' = 0 /\ answer' = NoAnswer
    /\ UNCHANGED <<published, known>>

GetPropertyDataSize ==
    /\ hal = "size"
    /\ hal' = "data"
    /\ size' = Size(query.object, query.selector, query.scope)
    /\ UNCHANGED <<published, known, query, answer, steady>>

\* The HAL learns of the objects in the answer, and forgets all with the device.
Learned(ids) ==
    IF query.object = "PlugIn" /\ query.selector \in {"OwnedObjects", "DeviceList"} /\ ids = <<>>
    THEN {"PlugIn"}
    ELSE known \cup ToSet(ids)

GetPropertyData ==
    /\ hal = "data"
    /\ hal' = "done"
    /\ answer' = Data(query.object, query.selector, query.scope, size)
    /\ known' = Learned(answer'.ids)
    /\ UNCHANGED <<published, query, size, steady>>

\* It sets what it was told can be set.
SetPropertyData(object, selector) ==
    /\ hal \notin {"size", "data"} /\ object \in known
    /\ IsPropertySettable(object, selector)
    /\ hal' = "set" /\ steady' = TRUE
    /\ query' = [object |-> object, selector |-> selector, scope |-> "Global"]
    /\ size' = 0
    /\ answer' = [NoAnswer EXCEPT !.bytes = IF Taken(object, selector) THEN 0 ELSE Unknown]
    /\ UNCHANGED <<published, known>>

Next ==
    \/ Publish
    \/ \E object \in Objects, selector \in Selectors, scope \in Scopes :
           Ask(object, selector, scope)
    \/ GetPropertyDataSize \/ GetPropertyData
    \/ \E object \in Objects, selector \in Selectors : SetPropertyData(object, selector)

Spec == Init /\ [][Next]_vars
-------------------------------------------------------------------------------
\* Among the rest, that every property has a size (DeviceSizes and the like).
TypeOK ==
    /\ published \in BOOLEAN /\ steady \in BOOLEAN
    /\ known \subseteq Objects
    /\ hal \in {"none", "size", "data", "done", "set"}
    /\ query \in [object : Objects, selector : Selectors, scope : Scopes]
    /\ size \in Nat
    /\ answer.bytes \in Nat \cup {Unknown} /\ answer.ids \in Seq(Objects)

\* What HasProperty owns to, GetPropertyData answers, in as many bytes as
\* GetPropertyDataSize said.  Only the list of devices may differ, when the browse
\* thread published or hid the device between the two calls.  What IsPropertySettable
\* offers, the object has and SetPropertyData takes.
AnswersFit ==
    /\ hal = "done" /\ answer.bytes # size =>
        /\ ~steady /\ query.object = "PlugIn" /\ query.selector \in {"OwnedObjects", "DeviceList"}
        /\ {answer.bytes, size} = {0, Word}
    /\ hal = "set" => HasProperty(query.object, query.selector) /\ answer.bytes # Unknown

\* The object that owns another, by its own account, is known to the HAL before it,
\* and lists it among what it owns as soon as it is published ("Owns 1 stream + 2
\* controls", ZinkosDevice.cpp:183).
Owner(object) == Data(object, "Owner", "Global", Word).ids[1]
Owned(object) ==
    ToSet(Data(object, "OwnedObjects", "Global", Size(object, "OwnedObjects", "Global")).ids)

OwnersAgree ==
    \A object \in known \ {"PlugIn"} :
        Owner(object) \in known /\ (published => object \in Owned(Owner(object)))
===============================================================================
