----------------------------- MODULE JdwpTypes -----------------------------
(***************************************************************************)
(* The types of JDWP messages as cmd_jdwp.c declares them                  *)
(* (jdwp_type_table_new, setup_jdwp_types), and what a peer that follows   *)
(* the protocol sends for a type.                                          *)
(*                                                                         *)
(* A type is a record.  Scalars have a width in bytes; the five kinds of   *)
(* identifier get theirs from the application (update_type_sizes), and the *)
(* other identifiers from their supertype.  Names of fields are left out.  *)
(***************************************************************************)
EXTENDS Integers, Sequences, FiniteSets, SequencesExt

CONSTANTS
  IdSizes,  \* what VM_IDSizes returns: [IdKinds -> Nat]
  Pad       \* a byte that is not the first of a value

IdKinds == {"fieldID", "methodID", "objectID", "referenceTypeID", "frameID"}

ASSUME IdSizesAssumption == IdSizes \in [IdKinds -> {2, 4, 8}]

----------------------------------------------------------------------------
Scalar(n, w) == [kind |-> "scalar", name |-> n, width |-> w, super |-> "none"]
Id(n, s) == [kind |-> "scalar", name |-> n, width |-> -1, super |-> s]
Special(n) == [kind |-> n]

boolean == Scalar("boolean", 1)
byte == Scalar("byte", 1)
char == Scalar("char", 2)
double == Scalar("double", 4)
float == Scalar("float", 4)
int == Scalar("int", 4)
long == Scalar("long", 8)
short == Scalar("short", 2)
string == Special("string")
void == Scalar("void", 0)

object_id == Id("objectID", "none")
array_id == Id("arrayID", "objectID")
class_loader_id == Id("classLoaderID", "objectID")
class_object_id == Id("classObjectID", "objectID")
string_id == Id("stringID", "objectID")
thread_group_id == Id("threadGroupID", "objectID")
thread_id == Id("threadID", "objectID")

reference_type_id == Id("referenceTypeID", "none")
class_id == Id("classID", "referenceTypeID")
interface_id == Id("interfaceID", "referenceTypeID")
array_type_id == Id("arrayTypeID", "referenceTypeID")

field_id == Id("fieldID", "none")
method_id == Id("methodID", "none")
frame_id == Id("frameID", "none")

(* Types whose first byte says which type follows.                         *)
value == Special("value")
tagged_object_id == Special("taggedObjectID")
arrayregion == Special("arrayregion")
event_modifier == Special("eventModifier")
event == Special("event")
(* The rest of the message.                                                *)
gobble_hack == Special("gobbleHack")

STRUCT(fields) == [kind |-> "struct", fields |-> fields]
ARRAY(t) == [kind |-> "array", elem |-> t]

(* jdwp_scalar_width and jdwp_type_isinstance; the table has supertypes of *)
(* one level.                                                              *)
jdwp_scalar_width(t) ==
  IF t.width >= 0 THEN t.width
  ELSE IF t.name \in IdKinds THEN IdSizes[t.name] ELSE IdSizes[t.super]

(* Mutant: a subtype of referenceTypeID is not one.                        *)
IsRefTypeExactly(t) == t.kind = "scalar" /\ t.name = "referenceTypeID"

IsRefType(t) == t.kind = "scalar" /\ (t.name = "referenceTypeID" \/ t.super = "referenceTypeID")

Tags == {"[", "B", "C", "L", "F", "D", "I", "J", "S", "V", "Z", "s", "t", "g", "l", "c"}
ObjectTags == {"[", "L", "s", "t", "g", "l", "c"}

jdwp_tag_to_type(tag) ==
  CASE tag = "[" -> array_id        [] tag = "B" -> byte   [] tag = "C" -> char
    [] tag = "L" -> object_id       [] tag = "F" -> float  [] tag = "D" -> double
    [] tag = "I" -> int             [] tag = "J" -> long   [] tag = "S" -> short
    [] tag = "V" -> void            [] tag = "Z" -> boolean
    [] tag = "s" -> string_id       [] tag = "t" -> thread_id
    [] tag = "g" -> thread_group_id [] tag = "l" -> class_loader_id
    [] tag = "c" -> class_object_id

----------------------------------------------------------------------------
(* setup_jdwp_types                                                        *)

location == STRUCT(<<byte, class_id, method_id, long>>)

EventModifiers ==
  [Count |-> <<int>>, Conditional |-> <<int>>, ThreadOnly |-> <<thread_id>>,
   ClassOnly |-> <<reference_type_id>>, ClassMatch |-> <<string>>, ClassExclude |-> <<string>>,
   LocationOnly |-> <<location>>, ExceptionOnly |-> <<reference_type_id, boolean, boolean>>,
   FieldOnly |-> <<reference_type_id, field_id>>, Step |-> <<thread_id, int, int>>,
   InstanceOnly |-> <<object_id>>, SourceNameMatch |-> <<string>>]

ThreadAt == <<int, thread_id, location>>
MonitorAt == <<int, thread_id, tagged_object_id, location>>
FieldAt == ThreadAt \o <<byte, reference_type_id, field_id, tagged_object_id>>

Events ==
  [VMStart |-> <<int, thread_id>>, SingleStep |-> ThreadAt, Breakpoint |-> ThreadAt,
   MethodEntry |-> ThreadAt, MethodExit |-> ThreadAt,
   MethodExitWithReturnValue |-> Append(ThreadAt, value),
   MonitorContendedEnter |-> MonitorAt, MonitorContendedEntered |-> MonitorAt,
   MonitorWait |-> Append(MonitorAt, long), MonitorWaited |-> Append(MonitorAt, boolean),
   Exception |-> ThreadAt \o <<tagged_object_id, location>>,
   ThreadStart |-> <<int, thread_id>>, ThreadDeath |-> <<int, thread_id>>,
   ClassPrepare |-> <<int, thread_id, byte, reference_type_id, string, int>>,
   ClassUnload |-> <<int, string>>,
   FieldAccess |-> FieldAt, FieldModification |-> Append(FieldAt, value),
   VMDeath |-> <<int>>]

(* A command: its number, its fields and the fields of its reply.          *)
Cmd(code, fields, reply) == [code |-> code, fields |-> fields, reply |-> <<reply>>]
CmdNoReply(code, fields) == [code |-> code, fields |-> fields, reply |-> <<>>]
RepeatType(t, n) == [i \in 1 .. n |-> t]

cbs_class_record == STRUCT(<<byte, reference_type_id, int>>)
ac_class_record == STRUCT(<<byte, reference_type_id, string, int>>)
dispose_request == STRUCT(<<object_id, int>>)
redef_class == STRUCT(<<reference_type_id, ARRAY(byte)>>)
acwg == STRUCT(<<byte, reference_type_id, string, string, int>>)

VirtualMachine1 ==
  {Cmd(1, <<>>, <<string, int, int, string, string>>),          \* Version
   Cmd(2, <<string>>, <<ARRAY(cbs_class_record)>>),             \* ClassesBySignature
   Cmd(3, <<>>, <<ARRAY(ac_class_record)>>),                    \* AllClasses
   Cmd(4, <<>>, <<ARRAY(thread_id)>>),                          \* AllThreads
   Cmd(5, <<>>, <<ARRAY(thread_group_id)>>),                    \* TopLevelThreadGroups
   Cmd(6, <<>>, <<>>),                                          \* Dispose
   Cmd(7, <<>>, RepeatType(int, 5)),                            \* IDSizes
   Cmd(8, <<>>, <<>>), Cmd(9, <<>>, <<>>),                      \* Suspend, Resume
   Cmd(10, <<int>>, <<>>),                                      \* Exit
   Cmd(11, <<string>>, <<string_id>>),                          \* CreateString
   Cmd(12, <<>>, RepeatType(boolean, 7))}                       \* Capabilities

VirtualMachine2 ==
  {Cmd(13, <<>>, <<string, ARRAY(string), ARRAY(string)>>),     \* ClassPaths
   Cmd(14, <<ARRAY(dispose_request)>>, <<>>),                   \* DisposeObjects
   Cmd(15, <<>>, <<>>), Cmd(16, <<>>, <<>>),                    \* HoldEvents, ReleaseEvents
   Cmd(17, <<>>, RepeatType(boolean, 31)),                      \* CapabilitiesNew
   Cmd(18, <<ARRAY(redef_class)>>, <<>>),                       \* RedefineClasses
   Cmd(19, <<string>>, <<>>),                                   \* SetDefaultStratum
   Cmd(20, <<>>, <<ARRAY(acwg)>>),                              \* AllClassesWithGeneric
   Cmd(21, <<ARRAY(reference_type_id)>>, <<ARRAY(long)>>)}      \* InstanceCounts

field_record == STRUCT(<<field_id, string, string, int>>)
method_record == STRUCT(<<method_id, string, string, int>>)
nested_type_result == STRUCT(<<byte, reference_type_id>>)
generic_field == STRUCT(<<field_id, string, string, string, int>>)
generic_method == STRUCT(<<method_id, string, string, string, int>>)

ReferenceType ==
  {Cmd(1, <<reference_type_id>>, <<string>>),                   \* Signature
   Cmd(2, <<reference_type_id>>, <<class_loader_id>>),          \* ClassLoader
   Cmd(3, <<reference_type_id>>, <<int>>),                      \* Modifiers
   Cmd(4, <<reference_type_id>>, <<ARRAY(field_record)>>),      \* Fields
   Cmd(5, <<reference_type_id>>, <<ARRAY(method_record)>>),     \* Methods
   Cmd(6, <<reference_type_id, ARRAY(field_id)>>, <<ARRAY(value)>>),    \* GetValues
   Cmd(7, <<reference_type_id>>, <<string>>),                   \* SourceFile
   Cmd(8, <<reference_type_id>>, <<ARRAY(nested_type_result)>>),        \* NestedTypes
   Cmd(9, <<reference_type_id>>, <<int>>),                      \* Status
   Cmd(10, <<reference_type_id>>, <<ARRAY(interface_id)>>),     \* Interfaces
   Cmd(11, <<reference_type_id>>, <<class_object_id>>),         \* ClassObject
   Cmd(12, <<reference_type_id>>, <<string>>)}                  \* SourceDebugExtension

ReferenceType2 ==
  {Cmd(13, <<reference_type_id>>, <<string, string>>),          \* SignatureWithGeneric
   Cmd(14, <<reference_type_id>>, <<ARRAY(generic_field)>>),    \* FieldsWithGeneric
   Cmd(15, <<reference_type_id>>, <<ARRAY(generic_method)>>),   \* MethodsWithGeneric
   Cmd(16, <<reference_type_id, int>>, <<ARRAY(tagged_object_id)>>),    \* Instances
   Cmd(17, <<reference_type_id>>, <<int, int>>),                \* ClassFileVersion
   Cmd(18, <<reference_type_id>>, <<int, ARRAY(byte)>>)}        \* ConstantPool

Invoke == <<thread_id, method_id, ARRAY(value)>>

ClassType ==
  {Cmd(1, <<class_id>>, <<class_id>>),                          \* Superclass
   Cmd(2, <<class_id, gobble_hack>>, <<>>),                     \* SetValues
   Cmd(3, <<class_id>> \o Invoke, <<value, tagged_object_id>>), \* InvokeMethod
   Cmd(4, <<class_id>> \o Invoke, <<tagged_object_id, tagged_object_id>>)}  \* NewInstance

ArrayType == {Cmd(1, <<array_type_id, int>>, <<tagged_object_id>>)}  \* NewInstance

line_table_entry == STRUCT(<<long, int>>)
slot_record == STRUCT(<<long, string, string, int, int>>)
generic_slot_record == STRUCT(<<long, string, string, string, int, int>>)

Method ==
  {Cmd(1, <<reference_type_id, method_id>>, <<long, long, int, ARRAY(line_table_entry)>>),
   Cmd(2, <<reference_type_id, method_id>>, <<int, ARRAY(slot_record)>>),
   Cmd(3, <<reference_type_id, method_id>>, <<ARRAY(byte)>>),
   Cmd(4, <<reference_type_id, method_id>>, <<boolean>>),
   Cmd(5, <<reference_type_id, method_id>>, <<int, ARRAY(generic_slot_record)>>)}

ObjectReference ==
  {Cmd(1, <<object_id>>, <<byte, reference_type_id>>),          \* ReferenceType
   Cmd(2, <<object_id, ARRAY(field_id)>>, <<ARRAY(value)>>),    \* GetValues
   Cmd(3, <<object_id, gobble_hack>>, <<>>),                    \* SetValues
   Cmd(5, <<object_id>>, <<thread_id, int, ARRAY(thread_id)>>), \* MonitorInfo
   Cmd(6, <<object_id, thread_id, class_id, method_id, ARRAY(value)>>,
       <<value, tagged_object_id>>),                            \* InvokeMethod
   Cmd(7, <<object_id>>, <<>>), Cmd(8, <<object_id>>, <<>>),    \* Disable-, EnableCollection
   Cmd(9, <<object_id>>, <<boolean>>),                          \* IsCollected
   Cmd(10, <<object_id, int>>, <<ARRAY(tagged_object_id)>>)}    \* ReferringObjects

StringReference == {Cmd(1, <<object_id>>, <<string>>)}

frame_record == STRUCT(<<frame_id, location>>)
owned_monitor_record == STRUCT(<<tagged_object_id, int>>)

ThreadReference ==
  {Cmd(1, <<thread_id>>, <<string>>),                           \* Name
   Cmd(2, <<thread_id>>, <<>>), Cmd(3, <<thread_id>>, <<>>),    \* Suspend, Resume
   Cmd(4, <<thread_id>>, <<int, int>>),                         \* Status
   Cmd(5, <<thread_id>>, <<thread_group_id>>),                  \* ThreadGroup
   Cmd(6, <<thread_id, int, int>>, <<ARRAY(frame_record)>>),    \* Frames
   Cmd(7, <<thread_id>>, <<int>>),                              \* FrameCount
   Cmd(8, <<thread_id>>, <<ARRAY(tagged_object_id)>>),          \* OwnedMonitors
   Cmd(9, <<thread_id>>, <<tagged_object_id>>),                 \* CurrentContendedMonitor
   Cmd(10, <<thread_id, object_id>>, <<>>),                     \* Stop
   Cmd(11, <<thread_id>>, <<>>),                                \* Interrupt
   Cmd(12, <<thread_id>>, <<int>>),                             \* SuspendCount
   Cmd(13, <<thread_id>>, <<ARRAY(owned_monitor_record)>>),     \* OwnedMonitorsStackDepthInfo
   Cmd(14, <<thread_id, value>>, <<>>)}                         \* ForceEarlyReturn

ThreadGroupReference ==
  {Cmd(1, <<thread_group_id>>, <<string>>),                     \* Name
   Cmd(2, <<thread_group_id>>, <<thread_group_id>>),            \* Parent
   Cmd(3, <<thread_group_id>>, <<ARRAY(thread_id), ARRAY(thread_group_id)>>)}  \* Children

ArrayReference ==
  {Cmd(1, <<array_id>>, <<int>>),                               \* Length
   Cmd(2, <<array_id, int, int>>, <<arrayregion>>),             \* GetValues
   Cmd(3, <<array_id, int, int, gobble_hack>>, <<>>)}           \* SetValues

visible_class_record == STRUCT(<<byte, reference_type_id>>)

ClassLoaderReference ==
  {Cmd(1, <<class_loader_id>>, <<ARRAY(visible_class_record)>>)}  \* VisibleClasses

EventRequest ==
  {Cmd(1, <<byte, byte, ARRAY(event_modifier)>>, <<int>>),      \* Set
   Cmd(2, <<byte, int>>, <<>>)}                                 \* Clear

sf_value == STRUCT(<<int, byte>>)
sf_set_value == STRUCT(<<int, value>>)

StackFrame ==
  {Cmd(1, <<thread_id, frame_id, ARRAY(sf_value)>>, <<ARRAY(value)>>),  \* GetValues
   Cmd(2, <<thread_id, frame_id, ARRAY(sf_set_value)>>, <<>>),  \* SetValues
   Cmd(3, <<thread_id, frame_id>>, <<tagged_object_id>>),       \* ThisObject
   Cmd(4, <<thread_id, frame_id>>, <<>>)}                       \* PopFrames

ClassObjectReference == {Cmd(1, <<class_object_id>>, <<byte, reference_type_id>>)}

EventSet == {CmdNoReply(100, <<byte, ARRAY(event)>>)}           \* Composite
DDM == {Cmd(1, <<byte>>, <<>>)}                                 \* Chunk

Commands ==
  [VM |-> VirtualMachine1 \cup VirtualMachine2, RT |-> ReferenceType \cup ReferenceType2,
   CT |-> ClassType, AT |-> ArrayType, M |-> Method, OR |-> ObjectReference,
   SR |-> StringReference, T |-> ThreadReference, TG |-> ThreadGroupReference,
   AR |-> ArrayReference, CL |-> ClassLoaderReference, ER |-> EventRequest,
   SF |-> StackFrame, COR |-> ClassObjectReference, EV |-> EventSet, DDM |-> DDM]

(* The types of the messages: a command's, or a reply's.                   *)
MessageTypes ==
  UNION {{STRUCT(c.fields) : c \in Commands[g]}
         \cup {STRUCT(c.reply[1]) : c \in {x \in Commands[g] : x.reply # <<>>}}
         : g \in DOMAIN Commands}

----------------------------------------------------------------------------
(* What the other side sends: outside this program, by the protocol.  For  *)
(* most messages that is what the table above declares; where it is not,   *)
(* the protocol's fields are given here.  A message is a sequence of       *)
(* leaves: a width, a value, whether it is a reference type, and whether   *)
(* the table has another width for it.                                     *)

LineTableReply == STRUCT(<<long, long, int, ARRAY(line_table_entry)>>)
CapabilitiesNewReply == STRUCT(RepeatType(boolean, 31))
InvokeCommands ==
  {STRUCT(<<class_id>> \o Invoke), STRUCT(<<object_id, thread_id, class_id, method_id, ARRAY(value)>>)}
Chunk == STRUCT(<<byte>>)

(* One count of lines, 32 capabilities, options after the arguments of an  *)
(* invoked method, the length and the data of a chunk.                     *)
ProtocolFields(t) ==
  CASE t = LineTableReply -> <<long, long, ARRAY(line_table_entry)>>
    [] t = CapabilitiesNewReply -> RepeatType(boolean, 32)
    [] t \in InvokeCommands -> Append(t.fields, int)
    [] t = Chunk -> <<int, ARRAY(byte)>>
    [] OTHER -> t.fields

Number(v) == [is |-> "number", v |-> v]
Leaf(w, v) == <<[w |-> w, v |-> Number(v), ref |-> FALSE, odd |-> FALSE]>>
TagLeaf(tag) == <<[w |-> 1, v |-> [is |-> "tag", v |-> tag], ref |-> FALSE, odd |-> FALSE]>>

(* A number that stands for any, and that is an identifier as well.        *)
Some == 7
RefIds == {0, Some}

(* The protocol's width: a double has 8 bytes.                             *)
WireWidth(t) == IF t.name = "double" THEN 8 ELSE jdwp_scalar_width(t)

IsReferenceType(t) == t.super = "referenceTypeID" \/ t.name = "referenceTypeID"
SentScalar(t) ==
  {<<[w |-> WireWidth(t), v |-> Number(r), ref |-> IsReferenceType(t),
      odd |-> WireWidth(t) # jdwp_scalar_width(t)]>> :
     r \in IF IsReferenceType(t) THEN RefIds ELSE {Some}}

SentValue(tags) ==
  UNION {{TagLeaf(tag) \o s : s \in SentScalar(jdwp_tag_to_type(tag))} : tag \in tags}

(* n out of S, one after another; of two, one is any and one is fixed.     *)
Concats(S, n) ==
  LET f == CHOOSE x \in S : TRUE
  IN  IF n = 0 THEN {<<>>} ELSE IF n = 1 THEN S ELSE {a \o f : a \in S} \cup {f \o a : a \in S}

(* An array of objects is sent as tagged values, any other untagged.       *)
SentRegion ==
  UNION {UNION {{TagLeaf(tag) \o Leaf(4, n) \o s :
                   s \in Concats(IF tag \in ObjectTags THEN SentValue({tag})
                                 ELSE SentScalar(jdwp_tag_to_type(tag)), n)}
                : n \in 0 .. 2} : tag \in Tags \ {"V"}}

(* Arrays of bytes are code or class files and not empty.                  *)
RECURSIVE Sent(_), SentFields(_)
SentFields(fields) ==
  IF fields = <<>> THEN {<<>>}
  ELSE {a \o b : a \in Sent(Head(fields)), b \in SentFields(Tail(fields))}

SentOneOf(kinds) ==
  UNION {{TagLeaf(k) \o s : s \in SentFields(kinds[k])} : k \in DOMAIN kinds}

Sent(t) ==
  CASE t.kind = "scalar" -> SentScalar(t)
    [] t.kind = "string" -> {Leaf(4, n) \o (IF n = 0 THEN <<>> ELSE Leaf(n, Some)) : n \in {0, 3}}
    [] t.kind = "value" -> SentValue(Tags)
    [] t.kind = "taggedObjectID" -> SentValue(ObjectTags)
    [] t.kind = "arrayregion" -> SentRegion
    [] t.kind = "event" -> SentOneOf(Events)
    [] t.kind = "eventModifier" -> SentOneOf(EventModifiers)
    [] t.kind = "gobbleHack" -> {Leaf(4, Some)}
    [] t.kind = "struct" -> SentFields(t.fields)
    [] t.kind = "array" ->
         UNION {{Leaf(4, n) \o s : s \in Concats(Sent(t.elem), n)}
                : n \in (IF t.elem = byte THEN 1 ELSE 0) .. 2}

SentFor(t) == SentFields(ProtocolFields(t))

(* The messages that the table has wrong before their last field.          *)
Misdeclared(t, m) ==
  t = LineTableReply \/ \E i, j \in DOMAIN m : i < j /\ m[i].odd /\ ~m[j].odd

(* The bytes: a leaf's value is in its first, the others are padding.      *)
Bytes(leaves) ==
  FlattenSeq([i \in 1 .. Len(leaves) |->
                [j \in 1 .. leaves[i].w |-> IF j = 1 THEN leaves[i].v ELSE Pad]])

============================================================================
