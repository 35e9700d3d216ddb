------------------------------- MODULE CodeFirst -------------------------------
(***************************************************************************)
(* The devices of the serializer and the schemas they are built from       *)
(* (codefirst.c, schema.c, schemalib.c), and the transactions that send    *)
(* their properties (datapublisher.c).                                     *)
(*                                                                         *)
(* A schema is kept in a list of its own and counts, for each of its       *)
(* models, the devices that use it; the last device destroyed takes the    *)
(* schema with it.  The table of devices has a lifetime of its own: it is  *)
(* opened by serializer_init, or lazily by the first call that needs it.   *)
(*                                                                         *)
(* The module is called from one thread.  A call is a step, except that    *)
(* SERIALIZE takes a step for each value it is given.                      *)
(***************************************************************************)
EXTENDS Naturals, Sequences, FiniteSets, SequencesExt

CONSTANTS
  Device,     (* addresses of DEVICE_HEADER_DATA, with the device's data     *)
  Schema,     (* addresses of SCHEMA_HANDLE_DATA                             *)
  Namespace,  (* the namespaces declared with BEGIN_NAMESPACE                *)
  Override,   (* the namespace serializer_init may be given                  *)
  Model,
  Declares,   (* the models of a namespace                                   *)
  Top,        (* the properties of a model, in the order of the metadata     *)
  Inner,      (* the paths of the properties of its child models             *)
  MaxCreates, (* bound on the devices ever created                           *)
  MaxValues,  (* bound on the values of one SERIALIZE                        *)
  None        (* a null pointer                                              *)

ASSUME CodeFirstAssumption ==
  /\ IsFiniteSet(Device) /\ IsFiniteSet(Schema) /\ IsFiniteSet(Model)
  /\ Declares \in [Namespace -> SUBSET Model]
  /\ MaxCreates \in Nat /\ MaxValues \in Nat
  /\ None \notin Device \cup Schema \cup Namespace \cup {Override}
  /\ Override \notin Namespace

(* A path with the place, among the values of the call, it was last given.  *)
Paths == UNION {Range(Top[m]) \cup Inner[m] : m \in Model}
Values == Seq([path : Paths, nth : 1 .. MaxValues])

SchemaData == [ns : Namespace \cup {Override}, models : SUBSET Model,
               refs : [Model -> 0 .. MaxCreates]]
Header == [schema : Schema, model : Model]
Transaction == [dev : Device \cup {None}, values : Values,
                given : Seq(Paths \cup {"all"})]

ASSUME DataAssumption ==
  /\ Top \in [Model -> Seq(Paths)] /\ Inner \in [Model -> SUBSET Paths]
  /\ "all" \notin Paths
  /\ None \notin SchemaData /\ None \notin Header /\ None \notin Transaction

VARIABLES
  agent,     (* g_AgentState is AGENT_INITIALIZED                            *)
  state,     (* g_state                                                      *)
  override,  (* g_OverrideSchemaNamespace                                    *)
  table,     (* g_Devices, of g_DeviceCount entries                          *)
  schemas,   (* g_schemas: what is at an address, or None                    *)
  header,    (* the model handle in the header at an address, or None        *)
  send,      (* the SERIALIZE in progress, or None                           *)
  creates,
  (* History, read by the properties only:                                   *)
  orphaned,  (* schemas of devices that CodeFirst_Deinit destroyed           *)
  smashed    (* entries of the table were overwritten while they were moved  *)

module == <<agent, state, override>>
history == <<orphaned, smashed>>
vars == <<module, table, schemas, header, send, creates, history>>

Live == {d \in Device : header[d] # None}

(* Every header the table points to may be read.                            *)
Readable == Range(table) \subseteq Live

Users(h) == {d \in Live : header[d].schema = h}

TypeOK ==
  /\ agent \in BOOLEAN /\ state \in {"not", "init", "api"}
  /\ override \in {Override, None}
  /\ table \in Seq(Device)
  /\ schemas \in [Schema -> SchemaData \cup {None}]
  /\ header \in [Device -> Header \cup {None}]
  /\ send \in Transaction \cup {None}
  /\ send # None => Len(send.given) <= MaxValues
  /\ creates \in 0 .. MaxCreates
  /\ orphaned \subseteq Schema /\ smashed \in BOOLEAN

Init ==
  /\ agent = FALSE /\ state = "not" /\ override = None
  /\ table = <<>>
  /\ schemas = [h \in Schema |-> None] /\ header = [d \in Device |-> None]
  /\ send = None /\ creates = 0
  /\ orphaned = {} /\ smashed = FALSE

-----------------------------------------------------------------------------
(* The module's lifetime.                                                   *)

(* CodeFirst_Init_impl(NULL, false), which other calls make on their way.   *)
LazyInit ==
  IF state = "not" THEN state' = "api" /\ override' = None
                   ELSE UNCHANGED <<state, override>>

SerializerInit(ns) ==
  /\ send = None
  /\ ~agent /\ state = "not"
  /\ agent' = TRUE /\ state' = "init" /\ override' = ns
  /\ UNCHANGED <<table, schemas, header, send, creates, history>>

(* The headers in the table are freed; one met twice would be freed twice.  *)
Deinit ==
  /\ send = None
  /\ agent /\ state = "init"
  /\ Readable /\ IsInjective(table)
  /\ agent' = FALSE /\ state' = "not"
  /\ orphaned' = orphaned \cup {header[d].schema : d \in Range(table)}
  /\ header' = [d \in Device |-> IF d \in Range(table) THEN None ELSE header[d]]
  /\ table' = <<>>
  /\ UNCHANGED <<override, schemas, send, creates, smashed>>

-----------------------------------------------------------------------------
(* Schemas.                                                                 *)

(* CodeFirst_RegisterSchema may answer h: the schema that has the name, or  *)
(* else a new one.                                                          *)
NameOf(ns) == IF override # None THEN override ELSE ns

RegisterSchema(ns, h) ==
  LET registered == {g \in Schema : schemas[g] # None
                                    /\ schemas[g].ns = NameOf(ns)}
  IN IF registered # {} THEN h \in registered ELSE schemas[h] = None

Registered(ns, h) ==
  IF schemas[h] = None
  THEN [ns |-> NameOf(ns), models |-> Declares[ns],
        refs |-> [m \in Model |-> 0]]
  ELSE schemas[h]

AddDeviceRef(s, m) == [s EXCEPT !.refs[m] = @ + 1]

ReleaseDeviceRef(s, m) == [s EXCEPT !.refs[m] = IF @ > 0 THEN @ - 1 ELSE @]

(* Mutant: one unused model is enough.                                      *)
DestroyIfUnused_Any(s) ==
  IF \E m \in s.models : s.refs[m] = 0 THEN None ELSE s

DestroyIfUnused(s) ==
  IF \A m \in s.models : s.refs[m] = 0 THEN None ELSE s

(* GET_MODEL_HANDLE on its own, and within a CREATE_MODEL_INSTANCE that     *)
(* fails before the lazy initialisation: no such model in the schema.       *)
GetModelHandle(ns, h) ==
  /\ send = None
  /\ RegisterSchema(ns, h)
  /\ schemas' = [schemas EXCEPT ![h] = Registered(ns, h)]
  /\ UNCHANGED <<module, table, header, send, creates, history>>

-----------------------------------------------------------------------------
(* Devices.                                                                 *)

(* CREATE_MODEL_INSTANCE.  The schema is registered before the module is    *)
(* initialised.                                                             *)
CreateDevice(ns, m, h, d) ==
  /\ send = None
  /\ creates < MaxCreates
  /\ RegisterSchema(ns, h) /\ m \in Registered(ns, h).models
  /\ header[d] = None
  /\ LazyInit
  /\ schemas' = [schemas EXCEPT ![h] = AddDeviceRef(Registered(ns, h), m)]
  /\ header' = [header EXCEPT ![d] = [schema |-> h, model |-> m]]
  /\ table' = Append(IF state = "not" THEN <<>> ELSE table, d)
  /\ creates' = creates + 1
  /\ UNCHANGED <<agent, send, history>>

(* The device, its data or the room in the table cannot be allocated: the   *)
(* schema and the initialisation stay.                                      *)
CreateDeviceFails(ns, m, h) ==
  /\ send = None
  /\ RegisterSchema(ns, h) /\ m \in Registered(ns, h).models
  /\ LazyInit
  /\ schemas' = [schemas EXCEPT ![h] = Registered(ns, h)]
  /\ UNCHANGED <<agent, table, header, send, creates, history>>

(* The entries after the i-th move down by a memcpy onto themselves.  When  *)
(* there are several, it may have written the last one over the others      *)
(* before it copies those.                                                  *)
MoveDown(i) ==
  LET backward == [j \in 1 .. Len(table) - 1 |->
                     IF j < i THEN table[j] ELSE Last(table)]
  IN \/ table' = RemoveAt(table, i) /\ UNCHANGED smashed
     \/ /\ Len(table) - i >= 2
        /\ table' = backward /\ smashed' = TRUE

(* Mutant: whoever initialised the module.                                  *)
CloseWhenEmpty_Always(n) ==
  IF n = 0 THEN state' = "not" ELSE UNCHANGED state

CloseWhenEmpty(n) ==
  IF state = "api" /\ n = 0 THEN state' = "not" ELSE UNCHANGED state

(* DESTROY_MODEL_INSTANCE.  The references of the device go before it does. *)
DestroyDevice(d) ==
  LET i == SelectInSeq(table, LAMBDA e : e = d)
      h == header[d].schema
  IN /\ send = None
     /\ Readable /\ i # 0
     /\ schemas' = [schemas EXCEPT ![h] =
                      DestroyIfUnused(ReleaseDeviceRef(@, header[d].model))]
     /\ header' = [header EXCEPT ![d] = None]
     /\ MoveDown(i)
     /\ CloseWhenEmpty(Len(table) - 1)
     /\ orphaned' = {g \in orphaned : schemas'[g] # None}
     /\ UNCHANGED <<agent, override, send, creates>>

(* The pointer is of no device in the table.                                *)
DestroyUnknown ==
  /\ send = None
  /\ Readable
  /\ CloseWhenEmpty(Len(table))
  /\ UNCHANGED <<agent, override, table, schemas, header, send, creates,
                 history>>

-----------------------------------------------------------------------------
(* SERIALIZE and SERIALIZE_REPORTED_PROPERTIES: the transaction of a device.*)

(* Mutant: a property named again gets a second value.                      *)
Publish_Appends(values, p, n) == Append(values, [path |-> p, nth |-> n])

(* DataPublisher_PublishTransacted of the n-th value of the call.           *)
Publish(values, p, n) ==
  LET i == SelectInSeq(values, LAMBDA v : v.path = p)
  IN IF i = 0 THEN Append(values, [path |-> p, nth |-> n])
              ELSE [values EXCEPT ![i].nth = n]

(* A pointer to the device itself stands for all its properties.            *)
SendAllDeviceProperties(values, m, n) ==
  FoldLeft(LAMBDA v, p : Publish(v, p, n), values, Top[m])

StartSend ==
  /\ send = None
  /\ LazyInit
  /\ table' = IF state = "not" THEN <<>> ELSE table
  /\ send' = [dev |-> None, values |-> <<>>, given |-> <<>>]
  /\ UNCHANGED <<agent, schemas, header, creates, history>>

SendValue(d, p) ==
  LET m == header[d].model
      n == Len(send.given) + 1
  IN /\ send # None /\ n <= MaxValues
     /\ Readable /\ d \in Range(table)
     /\ send.dev \in {None, d}
     /\ p \in Range(Top[m]) \cup Inner[m] \cup {"all"}
     /\ send' = [dev |-> d,
                 values |-> IF p = "all"
                            THEN SendAllDeviceProperties(send.values, m, n)
                            ELSE Publish(send.values, p, n),
                 given |-> Append(send.given, p)]
     /\ UNCHANGED <<module, table, schemas, header, creates, history>>

(* The transaction is over: dispatched, if it has values and nothing fails, *)
(* or discarded, for a value of no device or of another one, or because a   *)
(* step of it failed.  It is disposed of in either case.                    *)
EndSend ==
  /\ send # None
  /\ send' = None
  /\ UNCHANGED <<module, table, schemas, header, creates, history>>

-----------------------------------------------------------------------------
Next ==
  \/ \E ns \in {Override, None} : SerializerInit(ns)
  \/ Deinit
  \/ \E ns \in Namespace, h \in Schema : GetModelHandle(ns, h)
  \/ \E ns \in Namespace, h \in Schema : \E m \in Declares[ns] :
       \/ CreateDeviceFails(ns, m, h)
       \/ \E d \in Device : CreateDevice(ns, m, h, d)
  \/ \E d \in Device : DestroyDevice(d)
  \/ DestroyUnknown
  \/ StartSend
  \/ \E d \in Device, p \in Paths \cup {"all"} : SendValue(d, p)
  \/ EndSend

Spec == Init /\ [][Next]_vars

-----------------------------------------------------------------------------
(* The table holds the devices that exist, each once, so that every device  *)
(* an application has can be found, sent and destroyed; and while the       *)
(* module is not initialised there is none.  Initialising the serializer    *)
(* and initialising this module go together (codefirst.c:414-470, 973-1005).*)
(* Left out: a table some entries of which were overwritten.                *)
TableHoldsTheLiving ==
  /\ TypeOK
  /\ agent <=> state = "init"
  /\ state = "not" => table = <<>>
  /\ ~smashed => IsInjective(table) /\ Range(table) = Live

(* A schema counts exactly the devices of each of its models, whatever was  *)
(* created, failed and destroyed in between, so it is there as long as one  *)
(* of them is.  Left out: the references of devices that CodeFirst_Deinit   *)
(* destroys, which it does not give back (codefirst.c:459, schema.c:544).   *)
RefsAreTheDevices ==
  /\ \A d \in Live : /\ schemas[header[d].schema] # None
                     /\ header[d].model \in schemas[header[d].schema].models
  /\ \A h \in Schema \ orphaned : schemas[h] # None =>
       \A m \in Model :
         schemas[h].refs[m] = Cardinality({d \in Users(h) : header[d].model = m})

(* SRS_CODEFIRST_99_005: CodeFirst_Deinit deinitializes the module, freeing  *)
(* all the resources; so once it is not initialised no schema is held for a *)
(* device.  The code breaks it: the devices of the table are destroyed and  *)
(* their references to the schemas are kept (codefirst.c:459).              *)
DeinitFreesAll ==
  state = "not" => \A h \in Schema : schemas[h] # None =>
    \A m \in Model : schemas[h].refs[m] = 0

(* A transaction holds each property that its call has named once, with the *)
(* value named last, and no other property: whatever a whole device and its *)
(* single properties say twice is sent once (datapublisher.c:126-236,       *)
(* codefirst.c:1191-1363).                                                  *)
Names(p) == IF p = "all" THEN Range(Top[header[send.dev].model]) ELSE {p}

SendsTheLastValues ==
  send # None =>
    /\ \A p \in UNION {Names(send.given[n]) : n \in DOMAIN send.given} :
         Cardinality({i \in DOMAIN send.values : send.values[i].path = p}) = 1
    /\ \A i \in DOMAIN send.values :
         LET v == send.values[i]
         IN /\ v.path \in Names(send.given[v.nth])
            /\ \A n \in v.nth + 1 .. Len(send.given) :
                 v.path \notin Names(send.given[n])

===============================================================================
