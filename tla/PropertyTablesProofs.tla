------------------------- MODULE PropertyTablesProofs -------------------------
(***************************************************************************)
(* PropertyTables, table by table: every selector that an object owns to   *)
(* has a row in both of its tables, the two rows give the same number of   *)
(* bytes, and only the list of devices depends on anything but the query.  *)
(* The run says as much of the tables as they stand; the lemmas say which  *)
(* rows the invariants rest on, and what a row that is added has to keep.  *)
(***************************************************************************)
EXTENDS PropertyTables, SequenceTheorems, TLAPS

Lists == {"OwnedObjects", "DeviceList"}

\* The query asks for the list of devices, which follows the publication.
AsksForList == query.object = "PlugIn" /\ query.selector \in Lists

\* An answer is good for the announced number of bytes.
Fits(given, bytes) == bytes \in Nat /\ given.bytes = bytes /\ given.ids \in Seq(Objects)

\* PluginSizes while the device is published, and while it is not.
PluginTable(isPublished) == {
    Sized({"BaseClass", "Class", "Owner", "UIDToDevice"}, Word),
    Sized({"Manufacturer", "ResourceBundle"}, Pointer),
    Sized({"OwnedObjects", "DeviceList"}, IF isPublished THEN Word ELSE 0)}
-------------------------------------------------------------------------------
(* Tables. *)

\* What a selector gets from a table is what one of the rows that name it says.
LEMMA SizeRow ==
    ASSUME NEW table, NEW selector, \E row \in table : selector \in row.of
    PROVE  \E row \in table : selector \in row.of /\ SizeIn(table, selector) = row.bytes
<1>1. (CHOOSE row \in table : selector \in row.of) \in {row \in table : selector \in row.of}
  OBVIOUS
<1> QED  BY <1>1 DEF SizeIn

\* The same of an answer.
LEMMA AnswerRow ==
    ASSUME NEW table, NEW selector, \E row \in table : selector \in row.of
    PROVE  \E row \in table :
               /\ selector \in row.of
               /\ AnswerIn(table, selector) = [bytes |-> row.bytes, ids |-> row.ids]
<1>1. (CHOOSE r \in table : selector \in r.of) \in {row \in table : selector \in row.of}
  OBVIOUS
<1> QED  BY <1>1 DEF AnswerIn

\* How long the lists of objects are that the tables give.
LEMMA ListLengths ==
    /\ Len(<<>>) = 0 /\ \A a : Len(<<a>>) = 1
    /\ Len(<<"Volume", "Mute">>) = 2 /\ Len(<<"Stream", "Volume", "Mute">>) = 3
    /\ <<>> \in Seq(Objects) /\ \A a \in {"PlugIn", "Device", "Stream"} : <<a>> \in Seq(Objects)
    /\ <<"Volume", "Mute">> \in Seq(Objects) /\ <<"Stream", "Volume", "Mute">> \in Seq(Objects)
  BY DEF Objects

\* With the room that was announced for them, none of the device's objects is cut off.
LEMMA CutWhole ==
    Cut(<<"Stream", "Volume", "Mute">>, 3 * Word) = <<"Stream", "Volume", "Mute">>
<1> DEFINE three == <<"Stream", "Volume", "Mute">>
<1>1. three \in Seq(Objects) /\ Len(three) = 3
  BY ListLengths
<1>2. (3 * Word) \div Word = 3
  BY DEF Word
<1> HIDE DEF three
<1>3. SubSeq(three, 1, Len(three)) = three
  BY <1>1, SubSeqFull
<1> QED  BY <1>1, <1>2, <1>3 DEF Cut, three
-------------------------------------------------------------------------------
(* The tables of one object. *)

\* The sizes of the plug-in's properties (ZinkosDevice.cpp:589).
LEMMA PluginSizeIs ==
    ASSUME NEW isPublished \in BOOLEAN, NEW selector \in PluginProperties
    PROVE  SizeIn(PluginTable(isPublished), selector) =
               IF selector \in Lists THEN IF isPublished THEN Word ELSE 0
               ELSE IF selector \in {"Manufacturer", "ResourceBundle"} THEN Pointer ELSE Word
<1>1. \E row \in PluginTable(isPublished) : selector \in row.of
  BY DEF PluginTable, PluginProperties, Sized, Shared
<1>2. PICK row \in PluginTable(isPublished) :
          selector \in row.of /\ SizeIn(PluginTable(isPublished), selector) = row.bytes
  BY <1>1, SizeRow
<1> QED  BY <1>2 DEF PluginTable, Sized, Lists

\* The plug-in's answers name the device, if anything.
LEMMA PluginFits ==
    ASSUME published \in BOOLEAN, NEW selector \in PluginProperties
    PROVE  LET given == AnswerIn(PluginData, selector)
           IN  /\ Fits(given, SizeIn(PluginSizes, selector))
               /\ given.ids \in {<<>>, <<"Device">>}
               /\ selector \in Lists => given.ids = IF published THEN <<"Device">> ELSE <<>>
<1>1. \E row \in PluginData : selector \in row.of
  BY DEF PluginData, PluginProperties, Plain, Ids, Shared
<1>2. PICK row \in PluginData :
          selector \in row.of /\ AnswerIn(PluginData, selector) = [bytes |-> row.bytes, ids |-> row.ids]
  BY <1>1, AnswerRow
<1>3. SizeIn(PluginSizes, selector) =
          IF selector \in Lists THEN IF published THEN Word ELSE 0
          ELSE IF selector \in {"Manufacturer", "ResourceBundle"} THEN Pointer ELSE Word
  BY PluginSizeIs DEF PluginSizes, PluginTable
<1>4. /\ row.ids \in {<<>>, <<"Device">>}
      /\ selector \in Lists => row.ids = IF published THEN <<"Device">> ELSE <<>>
  BY <1>2 DEF PluginData, Plain, Ids, Lists
<1>5. row.bytes = SizeIn(PluginSizes, selector)
  BY <1>2, <1>3, ListLengths DEF PluginData, Plain, Ids, Lists, Word, Pointer
<1>6. SizeIn(PluginSizes, selector) \in Nat
  BY <1>3 DEF Word, Pointer
<1>7. row.ids \in Seq(Objects)
  BY <1>4, ListLengths
<1> QED  BY <1>2, <1>4, <1>5, <1>6, <1>7 DEF Fits

\* So does each table of the stream.
LEMMA StreamFits ==
    ASSUME NEW selector \in StreamProperties
    PROVE  Fits(AnswerIn(StreamData, selector), SizeIn(StreamSizes, selector))
<1>1. \E row \in StreamData : selector \in row.of
  BY DEF StreamData, StreamProperties, Plain, Ids, Shared
<1>2. PICK d \in StreamData :
          selector \in d.of /\ AnswerIn(StreamData, selector) = [bytes |-> d.bytes, ids |-> d.ids]
  BY <1>1, AnswerRow
<1>3. \E row \in StreamSizes : selector \in row.of
  BY DEF StreamSizes, StreamProperties, Sized, Shared
<1>4. PICK s \in StreamSizes : selector \in s.of /\ SizeIn(StreamSizes, selector) = s.bytes
  BY <1>3, SizeRow
<1>5. d.ids \in Seq(Objects)
  <2>1. d.ids = <<>> \/ d.ids = <<"Device">>
    BY <1>2 DEF StreamData, Plain, Ids
  <2>2. QED  BY <2>1, ListLengths
<1>6. s.bytes \in Nat
  BY DEF StreamSizes, Sized, Word, Pointer, Format, RangedFormat, ValueRange
<1>7. d.bytes = s.bytes
  BY <1>2, <1>4, ListLengths
  DEF StreamData, StreamSizes, Plain, Ids, Sized, Word, Pointer, Format, RangedFormat, ValueRange
<1> QED  BY <1>2, <1>4, <1>5, <1>6, <1>7 DEF Fits

\* One table serves both controls, which do not have the same properties.
LEMMA ControlFits ==
    ASSUME NEW object \in Controls, NEW selector \in ControlProperties(object)
    PROVE  Fits(AnswerIn(ControlData, selector), SizeIn(ControlSizes, selector))
<1>1. \E row \in ControlData : selector \in row.of
  BY DEF ControlData, ControlProperties, Plain, Ids, Shared
<1>2. PICK d \in ControlData :
          selector \in d.of /\ AnswerIn(ControlData, selector) = [bytes |-> d.bytes, ids |-> d.ids]
  BY <1>1, AnswerRow
<1>3. \E row \in ControlSizes : selector \in row.of
  BY DEF ControlSizes, ControlProperties, Sized, Shared
<1>4. PICK s \in ControlSizes : selector \in s.of /\ SizeIn(ControlSizes, selector) = s.bytes
  BY <1>3, SizeRow
<1>5. d.ids \in Seq(Objects)
  <2>1. d.ids = <<>> \/ d.ids = <<"Device">>
    BY <1>2 DEF ControlData, Plain, Ids
  <2>2. QED  BY <2>1, ListLengths
<1>6. s.bytes \in Nat
  BY DEF ControlSizes, Sized, Word, ValueRange
<1>7. d.bytes = s.bytes
  BY <1>2, <1>4, ListLengths DEF ControlData, ControlSizes, Plain, Ids, Sized, Word, ValueRange
<1> QED  BY <1>2, <1>4, <1>5, <1>6, <1>7 DEF Fits

\* What is cut to the caller's room is whole in the room that was announced.
LEMMA DeviceFits ==
    ASSUME NEW scope \in Scopes, NEW selector \in DeviceProperties
    PROVE  LET bytes == SizeIn(DeviceSizes(scope), selector)
           IN  Fits(AnswerIn(DeviceData(scope, bytes), selector), bytes)
<1> DEFINE bytes == SizeIn(DeviceSizes(scope), selector)
<1>1. \E row \in DeviceSizes(scope) : selector \in row.of
  BY DEF DeviceSizes, DeviceProperties, Sized, Shared
<1>2. PICK s \in DeviceSizes(scope) : selector \in s.of /\ bytes = s.bytes
  BY <1>1, SizeRow
<1> HIDE DEF bytes
<1>3. \E row \in DeviceData(scope, bytes) : selector \in row.of
  BY DEF DeviceData, DeviceProperties, Plain, Ids, Shared
<1>4. PICK d \in DeviceData(scope, bytes) :
          /\ selector \in d.of
          /\ AnswerIn(DeviceData(scope, bytes), selector) = [bytes |-> d.bytes, ids |-> d.ids]
  BY <1>3, AnswerRow
<1>5. bytes \in Nat
  BY <1>2 DEF DeviceSizes, Sized, Word, Pointer, ValueRange, ChannelLayout
<1>6. CASE selector = "OwnedObjects"
  <2>1. bytes = IF HasOutput(scope) THEN 3 * Word ELSE 0
    BY <1>2, <1>6 DEF DeviceSizes, Sized
  <2>2. d = Ids({"OwnedObjects"},
              IF HasOutput(scope) THEN Cut(<<"Stream", "Volume", "Mute">>, bytes) ELSE <<>>)
    BY <1>4, <1>6 DEF DeviceData, Plain, Ids
  <2>3. d.ids = IF HasOutput(scope) THEN <<"Stream", "Volume", "Mute">> ELSE <<>>
    BY <2>1, <2>2, CutWhole DEF Ids
  <2>4. d.bytes = Word * Len(d.ids) /\ Len(d.ids) = IF HasOutput(scope) THEN 3 ELSE 0
    <3>1. Len(d.ids) = IF HasOutput(scope) THEN 3 ELSE 0
      BY <2>3, ListLengths
    <3>2. d.ids = IF HasOutput(scope) THEN Cut(<<"Stream", "Volume", "Mute">>, bytes) ELSE <<>>
      BY <2>2 DEF Ids
    <3>3. d.bytes = Word * Len(d.ids)
      BY <2>2, <3>2 DEF Ids
    <3>4. QED  BY <3>1, <3>3
  <2>5. d.bytes = bytes
    BY <2>1, <2>4 DEF Word
  <2>6. d.ids \in Seq(Objects)
    BY <2>3, ListLengths
  <2>7. QED  BY <1>4, <1>5, <2>5, <2>6 DEF Fits, bytes
<1>7. CASE selector # "OwnedObjects"
  <2>1. d.ids \in Seq(Objects)
    <3>1. \/ d.ids = <<>> \/ d.ids = <<"Volume", "Mute">>
          \/ \E a \in {"PlugIn", "Device", "Stream"} : d.ids = <<a>>
      BY <1>4, <1>7 DEF DeviceData, Plain, Ids
    <3>2. QED  BY <3>1, ListLengths
  <2>2. d.bytes = s.bytes
    BY <1>2, <1>4, <1>7, ListLengths
    DEF DeviceData, DeviceSizes, Plain, Ids, Sized, Word, Pointer, ValueRange, ChannelLayout
  <2>3. QED  BY <1>2, <1>4, <1>5, <2>1, <2>2 DEF Fits, bytes
<1> QED  BY <1>6, <1>7
-------------------------------------------------------------------------------
(* The tables of all objects. *)

\* What an object owns to is answered, in the number of bytes that was announced if
\* nothing is published or hidden in between.
LEMMA AllFit ==
    ASSUME published \in BOOLEAN, NEW object \in Objects, NEW selector, NEW scope \in Scopes,
           HasProperty(object, selector)
    PROVE  LET bytes == Size(object, selector, scope)
           IN  Fits(Data(object, selector, scope, bytes), bytes)
<1>1. CASE object = "PlugIn"
  <2>1. selector \in PluginProperties
    BY <1>1 DEF HasProperty, Controls
  <2>2. Fits(AnswerIn(PluginData, selector), SizeIn(PluginSizes, selector))
    BY <2>1, PluginFits
  <2>3. QED  BY <1>1, <2>2 DEF Data, Size, Controls
<1>2. CASE object = "Device"
  <2>1. selector \in DeviceProperties
    BY <1>2 DEF HasProperty, Controls
  <2>2. Size(object, selector, scope) = SizeIn(DeviceSizes(scope), selector)
    BY <1>2 DEF Size, Controls
  <2>3. \A room : Data(object, selector, scope, room) = AnswerIn(DeviceData(scope, room), selector)
    BY <1>2 DEF Data, Controls
  <2>4. QED  BY <2>1, <2>2, <2>3, DeviceFits
<1>3. CASE object = "Stream"
  <2>1. selector \in StreamProperties
    BY <1>3 DEF HasProperty, Controls
  <2>2. Fits(AnswerIn(StreamData, selector), SizeIn(StreamSizes, selector))
    BY <2>1, StreamFits
  <2>3. QED  BY <1>3, <2>2 DEF Data, Size, Controls
<1>4. CASE object \in Controls
  <2>1. selector \in ControlProperties(object)
    BY <1>4 DEF HasProperty, Controls
  <2>2. Fits(AnswerIn(ControlData, selector), SizeIn(ControlSizes, selector))
    BY <1>4, <2>1, ControlFits
  <2>3. QED  BY <1>4, <2>2 DEF Data, Size, Controls
<1> QED  BY <1>1, <1>2, <1>3, <1>4 DEF Objects, Controls

\* Only the plug-in's answers follow the publication, and they do not depend on the room.
LEMMA PluginAnswers ==
    ASSUME published \in BOOLEAN, NEW selector \in PluginProperties, NEW scope, NEW room
    PROVE  LET given == Data("PlugIn", selector, scope, room)
           IN  /\ Fits(given, Size("PlugIn", selector, scope))
               /\ given.ids \in {<<>>, <<"Device">>}
               /\ selector \in Lists =>
                      given.bytes \in {0, Word} /\ Size("PlugIn", selector, scope) \in {0, Word}
<1>1. /\ Data("PlugIn", selector, scope, room) = AnswerIn(PluginData, selector)
      /\ Size("PlugIn", selector, scope) = SizeIn(PluginSizes, selector)
  BY DEF Data, Size, Controls
<1>2. PluginSizes = PluginTable(published)
  BY DEF PluginSizes, PluginTable
<1>3. selector \in Lists => SizeIn(PluginSizes, selector) \in {0, Word}
  BY <1>2, PluginSizeIs
<1> QED  BY <1>1, <1>3, PluginFits DEF Fits

\* Every other announced size is the same after the device was published or hidden.
LEMMA SizeStays ==
    ASSUME published \in BOOLEAN, published' \in BOOLEAN, NEW object \in Objects,
           NEW selector, NEW scope, HasProperty(object, selector),
           ~(object = "PlugIn" /\ selector \in Lists)
    PROVE  Size(object, selector, scope)' = Size(object, selector, scope)
<1>1. PluginSizes = PluginTable(published) /\ PluginSizes' = PluginTable(published')
  BY DEF PluginSizes, PluginTable
<1>2. CASE object = "PlugIn"
  <2>1. selector \in PluginProperties
    BY <1>2 DEF HasProperty, Controls
  <2>2. SizeIn(PluginSizes', selector) = SizeIn(PluginSizes, selector)
    BY <1>1, <1>2, <2>1, PluginSizeIs
  <2>3. QED  BY <1>2, <2>2 DEF Size, Controls
<1>3. CASE object # "PlugIn"
  BY <1>3 DEF Size, Objects, Controls
<1> QED  BY <1>2, <1>3

\* Who says it owns what, by the tables of the owned.
LEMMA OwnerIs ==
    /\ Owner("Device") = "PlugIn"
    /\ \A object \in Objects \ {"PlugIn", "Device"} : Owner(object) = "Device"
<1>1. Owner("Device") = "PlugIn"
  <2>1. Owner("Device") = AnswerIn(DeviceData("Global", Word), "Owner").ids[1]
    BY DEF Owner, Data, Controls
  <2>2. \E row \in DeviceData("Global", Word) : "Owner" \in row.of
    BY DEF DeviceData, Plain, Ids
  <2>3. PICK row \in DeviceData("Global", Word) :
            /\ "Owner" \in row.of
            /\ AnswerIn(DeviceData("Global", Word), "Owner") = [bytes |-> row.bytes, ids |-> row.ids]
    BY <2>2, AnswerRow
  <2>4. row.ids = <<"PlugIn">>
    BY <2>3 DEF DeviceData, Plain, Ids
  <2>5. QED  BY <2>1, <2>3, <2>4
<1>2. ASSUME NEW table \in {StreamData, ControlData}
      PROVE  AnswerIn(table, "Owner").ids[1] = "Device"
  <2>1. \E row \in table : "Owner" \in row.of
    <3>1. \E row \in StreamData : "Owner" \in row.of
      BY DEF StreamData, Plain, Ids
    <3>2. \E row \in ControlData : "Owner" \in row.of
      BY DEF ControlData, Plain, Ids
    <3>3. QED  BY <1>2, <3>1, <3>2
  <2>2. PICK row \in table :
            "Owner" \in row.of /\ AnswerIn(table, "Owner") = [bytes |-> row.bytes, ids |-> row.ids]
    BY <2>1, AnswerRow
  <2>3. row.ids = <<"Device">>
    BY <1>2, <2>2 DEF StreamData, ControlData, Plain, Ids
  <2>4. QED  BY <2>2, <2>3
<1>3. \A object \in Objects \ {"PlugIn", "Device"} :
          Owner(object) = AnswerIn(IF object = "Stream" THEN StreamData ELSE ControlData, "Owner").ids[1]
  BY DEF Owner, Data, Objects, Controls
<1> QED  BY <1>1, <1>2, <1>3

\* Who owns what, by the tables of the owner.
LEMMA OwnedIs ==
    ASSUME published \in BOOLEAN
    PROVE  /\ published => "Device" \in Owned("PlugIn")
           /\ Objects \ {"PlugIn", "Device"} \subseteq Owned("Device")
<1>1. ASSUME published PROVE "Device" \in Owned("PlugIn")
  <2>1. "OwnedObjects" \in PluginProperties /\ "OwnedObjects" \in Lists
    BY DEF PluginProperties, Shared, Lists
  <2>2. AnswerIn(PluginData, "OwnedObjects").ids = <<"Device">>
    BY <1>1, <2>1, PluginFits
  <2>3. Owned("PlugIn") = ToSet(<<"Device">>)
    BY <2>2 DEF Owned, Data, Controls
  <2>4. QED  BY <2>3 DEF ToSet
<1>2. Owned("Device") = ToSet(<<"Stream", "Volume", "Mute">>)
  <2>1. HasOutput("Global") /\ "Global" \in Scopes
    BY DEF HasOutput, Scopes
  <2>2. PICK s \in DeviceSizes("Global") :
            "OwnedObjects" \in s.of /\ SizeIn(DeviceSizes("Global"), "OwnedObjects") = s.bytes
    <3>1. \E row \in DeviceSizes("Global") : "OwnedObjects" \in row.of
      BY DEF DeviceSizes, Sized
    <3>2. QED  BY <3>1, SizeRow
  <2>3. s.bytes = 3 * Word
    BY <2>1, <2>2 DEF DeviceSizes, Sized
  <2>4. PICK d \in DeviceData("Global", 3 * Word) :
            /\ "OwnedObjects" \in d.of
            /\ AnswerIn(DeviceData("Global", 3 * Word), "OwnedObjects") = [bytes |-> d.bytes, ids |-> d.ids]
    <3>1. \E row \in DeviceData("Global", 3 * Word) : "OwnedObjects" \in row.of
      BY DEF DeviceData, Plain, Ids
    <3>2. QED  BY <3>1, AnswerRow
  <2>5. d.ids = Cut(<<"Stream", "Volume", "Mute">>, 3 * Word)
    BY <2>1, <2>4 DEF DeviceData, Plain, Ids
  <2>6. Owned("Device") = ToSet(AnswerIn(DeviceData("Global", 3 * Word), "OwnedObjects").ids)
    BY <2>2, <2>3 DEF Owned, Data, Size, Controls
  <2>7. QED  BY <2>4, <2>5, <2>6, CutWhole
<1>3. ToSet(<<"Stream", "Volume", "Mute">>) = {"Stream", "Volume", "Mute"}
  BY DEF ToSet
<1> QED  BY <1>1, <1>2, <1>3 DEF Objects
-------------------------------------------------------------------------------
(* The invariant. *)

\* The HAL knows the plug-in, and of the device before anything that is the device's.
KnownOK == "PlugIn" \in known /\ (known # {"PlugIn"} => "Device" \in known)

\* Until it is answered, the query is about an object that the HAL knows; it is always
\* about a property that the object has.
AskedOK ==
    /\ hal \in {"size", "data"} => query.object \in known
    /\ hal \in {"size", "data", "done"} => HasProperty(query.object, query.selector)

\* What was announced is still what would be announced, except of the list of devices.
AnnouncedOK ==
    hal = "data" =>
        /\ AsksForList => size \in {0, Word}
        /\ ~AsksForList \/ steady => size = Size(query.object, query.selector, query.scope)

IInv == TypeOK /\ KnownOK /\ AskedOK /\ AnnouncedOK /\ AnswersFit
-------------------------------------------------------------------------------
\* The HAL starts with the plug-in and no query.
LEMMA InitIInv == Init => IInv
<1> SUFFICES ASSUME Init PROVE IInv
  OBVIOUS
<1> USE DEF Init
<1>1. query \in [object : Objects, selector : Selectors, scope : Scopes]
  BY DEF Objects, Selectors, Scopes, PluginProperties, Shared
<1>2. answer.bytes \in Nat \cup {Unknown} /\ answer.ids \in Seq(Objects)
  BY ListLengths DEF NoAnswer
<1>3. TypeOK
  BY <1>1, <1>2 DEF TypeOK, Objects
<1>4. KnownOK /\ AskedOK /\ AnnouncedOK /\ AnswersFit
  BY DEF KnownOK, AskedOK, AnnouncedOK, AnswersFit
<1> QED  BY <1>3, <1>4 DEF IInv

\* Another thread publishes or hides the device.
LEMMA PublishKeeps == IInv /\ Publish => IInv'
<1> SUFFICES ASSUME IInv, Publish PROVE IInv'
  OBVIOUS
<1> USE DEF IInv, Publish
<1>1. TypeOK'
  BY DEF TypeOK
<1>2. KnownOK' /\ AskedOK' /\ AnswersFit'
  BY DEF KnownOK, AskedOK, AnswersFit
<1>3. AnnouncedOK'
  <2>1. SUFFICES ASSUME hal = "data"
                 PROVE  /\ AsksForList => size \in {0, Word}
                        /\ ~AsksForList => size = Size(query.object, query.selector, query.scope)'
    BY DEF AnnouncedOK, AsksForList
  <2>2. published' \in BOOLEAN /\ published \in BOOLEAN /\ query.object \in Objects
    BY DEF TypeOK
  <2>3. HasProperty(query.object, query.selector)
    BY <2>1 DEF AskedOK
  <2>4. ASSUME ~AsksForList
        PROVE  Size(query.object, query.selector, query.scope)' =
                   Size(query.object, query.selector, query.scope)
    <3> DEFINE o == query.object  l == query.selector  c == query.scope
    <3>1. ~(o = "PlugIn" /\ l \in Lists)
      BY <2>4 DEF AsksForList
    <3>2. query' = query
      OBVIOUS
    <3> QED  BY <2>2, <2>3, <3>1, <3>2, SizeStays
  <2>5. QED  BY <2>1, <2>4 DEF AnnouncedOK
<1> QED  BY <1>1, <1>2, <1>3

\* The HAL asks.
LEMMA AskKeeps ==
    ASSUME IInv, NEW object \in Objects, NEW selector \in Selectors, NEW scope \in Scopes,
           Ask(object, selector, scope)
    PROVE  IInv'
<1> USE DEF IInv, Ask
<1>1. query' \in [object : Objects, selector : Selectors, scope : Scopes]
  OBVIOUS
<1>2. answer'.bytes \in Nat \cup {Unknown} /\ answer'.ids \in Seq(Objects)
  BY ListLengths DEF NoAnswer
<1>3. TypeOK'
  BY <1>1, <1>2 DEF TypeOK
<1>4. KnownOK' /\ AskedOK' /\ AnnouncedOK' /\ AnswersFit'
  BY DEF KnownOK, AskedOK, AnnouncedOK, AnswersFit, HasProperty, ControlProperties
<1> QED  BY <1>3, <1>4

\* The size is announced.
LEMMA SizeKeeps == IInv /\ GetPropertyDataSize => IInv'
<1> SUFFICES ASSUME IInv, GetPropertyDataSize PROVE IInv'
  OBVIOUS
<1> USE DEF IInv, GetPropertyDataSize
<1> DEFINE o == query.object
           l == query.selector
           c == query.scope
<1>1. published \in BOOLEAN /\ o \in Objects /\ l \in Selectors /\ c \in Scopes
  BY DEF TypeOK
<1>2. HasProperty(o, l)
  BY DEF AskedOK
<1>3. size' = Size(o, l, c) /\ UNCHANGED <<published, known, query, answer, steady>> /\ hal' = "data"
  OBVIOUS
<1>4. size' \in Nat
  BY <1>1, <1>2, <1>3, AllFit DEF Fits
<1>5. TypeOK'
  BY <1>3, <1>4 DEF TypeOK
<1>6. AsksForList => size' \in {0, Word}
  <2>1. ASSUME AsksForList PROVE size' \in {0, Word}
    <3>1. o = "PlugIn" /\ l \in PluginProperties /\ l \in Lists
      BY <2>1, <1>2 DEF AsksForList, HasProperty, Controls
    <3>2. QED  BY <1>1, <1>3, <3>1, PluginAnswers
  <2>2. QED  BY <2>1
<1>7. Size(o, l, c)' = Size(o, l, c)
  BY <1>3 DEF Size, PluginSizes
<1>8. AnnouncedOK'
  BY <1>3, <1>6, <1>7 DEF AnnouncedOK, AsksForList
<1>9. KnownOK' /\ AskedOK' /\ AnswersFit'
  BY <1>3 DEF KnownOK, AskedOK, AnswersFit
<1> QED  BY <1>5, <1>8, <1>9

\* The answer is given: it has the announced size, or it is the list of devices after
\* the device was published or hidden; and it makes nothing known whose owner is not.
LEMMA DataKeeps == IInv /\ GetPropertyData => IInv'
<1> SUFFICES ASSUME IInv, GetPropertyData PROVE IInv'
  OBVIOUS
<1> DEFINE o == query.object
           l == query.selector
           c == query.scope
           ids == answer'.ids
<1>1. published \in BOOLEAN /\ o \in Objects /\ l \in Selectors /\ c \in Scopes
  BY DEF IInv, TypeOK
<1>2. /\ hal = "data" /\ hal' = "done" /\ answer' = Data(o, l, c, size) /\ known' = Learned(ids)
      /\ UNCHANGED <<published, query, size, steady>>
  BY DEF GetPropertyData
<1>3. HasProperty(o, l) /\ o \in known
  BY <1>2 DEF IInv, AskedOK
<1>4. o = "PlugIn" => l \in PluginProperties
  BY <1>3 DEF HasProperty, Controls
<1>5. AnswersFit' /\ answer'.bytes \in Nat /\ ids \in Seq(Objects)
  <2>1. CASE AsksForList
    <3>1. o = "PlugIn" /\ l \in PluginProperties /\ l \in Lists
      BY <1>4, <2>1 DEF AsksForList
    <3>2. Fits(answer', Size(o, l, c)) /\ answer'.bytes \in {0, Word}
      BY <1>1, <1>2, <3>1, PluginAnswers
    <3>3. size \in {0, Word} /\ (steady => size = Size(o, l, c))
      BY <1>2, <2>1 DEF IInv, AnnouncedOK
    <3>4. answer'.bytes # size => ~steady /\ {answer'.bytes, size} = {0, Word}
      BY <3>2, <3>3 DEF Fits
    <3>5. QED  BY <1>2, <3>1, <3>2, <3>4 DEF AnswersFit, Lists, Fits
  <2>2. CASE ~AsksForList
    <3>1. size = Size(o, l, c)
      BY <1>2, <2>2 DEF IInv, AnnouncedOK
    <3>2. Fits(answer', size)
      BY <1>1, <1>2, <1>3, <3>1, AllFit
    <3>3. QED  BY <1>2, <3>2 DEF AnswersFit, Fits
  <2>3. QED  BY <2>1, <2>2
<1>6. ToSet(ids) \subseteq Objects
  BY <1>5 DEF ToSet
<1>7. KnownOK' /\ known' \subseteq Objects
  <2>1. known' = {"PlugIn"} \/ known' = known \cup ToSet(ids)
    BY <1>2 DEF Learned
  <2>2. "PlugIn" \in known /\ (known # {"PlugIn"} => "Device" \in known) /\ known \subseteq Objects
    BY DEF IInv, KnownOK, TypeOK
  <2>3. o = "PlugIn" => ToSet(ids) \in {{}, {"Device"}}
    <3>1. SUFFICES ASSUME o = "PlugIn" PROVE ToSet(ids) \in {{}, {"Device"}}
      OBVIOUS
    <3>2. ids \in {<<>>, <<"Device">>}
      BY <1>1, <1>2, <1>4, <3>1, PluginAnswers
    <3>3. QED  BY <3>2 DEF ToSet
  <2>4. "PlugIn" \in Objects
    BY DEF Objects
  <2>5. QED  BY <1>3, <1>6, <2>1, <2>2, <2>3, <2>4 DEF KnownOK
<1>8. TypeOK'
  BY <1>2, <1>5, <1>7 DEF IInv, TypeOK
<1>9. AskedOK' /\ AnnouncedOK'
  BY <1>2, <1>3 DEF AskedOK, AnnouncedOK
<1> QED  BY <1>5, <1>7, <1>8, <1>9 DEF IInv

\* The HAL sets what may be set, all of which the object has and takes.
LEMMA SetKeeps ==
    ASSUME IInv, NEW object \in Objects, NEW selector \in Selectors,
           SetPropertyData(object, selector)
    PROVE  IInv'
<1>1. /\ IsPropertySettable(object, selector) /\ hal' = "set" /\ steady' = TRUE
      /\ query' = [object |-> object, selector |-> selector, scope |-> "Global"] /\ size' = 0
      /\ UNCHANGED <<published, known>>
  BY DEF SetPropertyData
<1>2. Taken(object, selector) /\ HasProperty(object, selector)
  BY <1>1 DEF IsPropertySettable, Taken, HasProperty, ControlProperties, Controls
<1>3. answer' = [bytes |-> 0, ids |-> <<>>]
  BY <1>2 DEF SetPropertyData, NoAnswer
<1>4. TypeOK'
  <2>1. query' \in [object : Objects, selector : Selectors, scope : Scopes]
    BY <1>1 DEF Scopes
  <2>2. answer'.bytes \in Nat \cup {Unknown} /\ answer'.ids \in Seq(Objects)
    BY <1>3, ListLengths
  <2>3. QED  BY <1>1, <2>1, <2>2 DEF IInv, TypeOK
<1>5. KnownOK' /\ AskedOK' /\ AnnouncedOK'
  BY <1>1 DEF IInv, KnownOK, AskedOK, AnnouncedOK
<1>6. AnswersFit'
  BY <1>1, <1>2, <1>3 DEF AnswersFit, HasProperty, Controls, ControlProperties, Unknown
<1> QED  BY <1>4, <1>5, <1>6 DEF IInv

\* IInv is inductive.
LEMMA Invariance == Spec => []IInv
<1>1. IInv /\ [Next]_vars => IInv'
  <2> SUFFICES ASSUME IInv, [Next]_vars PROVE IInv'
    OBVIOUS
  <2>1. CASE Publish
    BY <2>1, PublishKeeps
  <2>2. ASSUME NEW object \in Objects, NEW selector \in Selectors, NEW scope \in Scopes,
               Ask(object, selector, scope)
        PROVE  IInv'
    BY <2>2, AskKeeps
  <2>3. CASE GetPropertyDataSize
    BY <2>3, SizeKeeps
  <2>4. CASE GetPropertyData
    BY <2>4, DataKeeps
  <2>5. ASSUME NEW object \in Objects, NEW selector \in Selectors, SetPropertyData(object, selector)
        PROVE  IInv'
    BY <2>5, SetKeeps
  <2>6. CASE UNCHANGED vars
    <3>1. UNCHANGED <<published, known, hal, query, size, answer, steady>>
      BY <2>6 DEF vars
    <3>2. Size(query.object, query.selector, query.scope)' =
              Size(query.object, query.selector, query.scope)
      BY <3>1 DEF Size, PluginSizes
    <3>3. QED
      BY <3>1, <3>2 DEF IInv, TypeOK, KnownOK, AskedOK, AnnouncedOK, AnswersFit, AsksForList
  <2>7. QED  BY <2>1, <2>2, <2>3, <2>4, <2>5, <2>6 DEF Next
<1>2. QED  BY <1>1, InitIInv, PTL DEF Spec
-------------------------------------------------------------------------------
\* Every query is of a legal kind, every announced size is a size: in particular each
\* property that HasProperty owns to has a case in GetPropertyDataSize
\* (ZinkosDevice.cpp:549-618).
THEOREM TypeCorrect == Spec => []TypeOK
<1>1. IInv => TypeOK
  BY DEF IInv
<1>2. QED  BY <1>1, Invariance, PTL

\* Announced size and answer agree, except of the list of devices when it changed in
\* between; what is offered for setting exists and is taken
\* (ZinkosDevice.cpp:549-657).
THEOREM AnswersAreWhole == Spec => []AnswersFit
<1>1. IInv => AnswersFit
  BY DEF IInv
<1>2. QED  BY <1>1, Invariance, PTL

\* However the HAL came to know of an object, it knows who owns it, and the owner's
\* list has it as soon as the device is published (ZinkosDevice.cpp:183).
THEOREM OwnersAreKnown == Spec => []OwnersAgree
<1>1. IInv => OwnersAgree
  <2> SUFFICES ASSUME IInv, NEW object \in known \ {"PlugIn"}
               PROVE  Owner(object) \in known /\ (published => object \in Owned(Owner(object)))
    BY DEF OwnersAgree
  <2>1. "PlugIn" \in known /\ "Device" \in known /\ object \in Objects /\ published \in BOOLEAN
    BY DEF IInv, KnownOK, TypeOK
  <2>2. CASE object = "Device"
    BY <2>1, <2>2, OwnerIs, OwnedIs
  <2>3. CASE object # "Device"
    BY <2>1, <2>3, OwnerIs, OwnedIs
  <2>4. QED  BY <2>2, <2>3
<1>2. QED  BY <1>1, Invariance, PTL
===============================================================================
