----------------------------- MODULE Generation -----------------------------
(***************************************************************************)
(* CodeGenOrchestrator::generate: what the LLVM module of a program holds  *)
(* after each turn of its loops over the classes, in source order.  A      *)
(* function is named by a class and a method (or new or init): mangling is *)
(* taken to keep these apart.  Of a method's body only its being there is  *)
(* modelled.  A lookup with at() that fails throws, and a type that is not *)
(* there is a null pointer used: the action is then not enabled, and       *)
(* generate() does not get any further.                                    *)
(***************************************************************************)
EXTENDS ClassTable

CONSTANTS new, init        (* the names of the constructor functions         *)

VARIABLES
  program,     (* the classes of the source, accepted by the analysis       *)
  table,       (* the class table the analysis built                        *)
  loops,       (* the loops of generate() still to finish, the current first *)
  index,       (* the class the current loop is at                          *)
  types,       (* the LLVM struct types, as <<"class" or "vtable", class>>  *)
  slots,       (* the vtable types: the method of each slot, per class      *)
  layout,      (* the struct bodies: the field of each slot, per class      *)
  functions,   (* the functions of the module                               *)
  vtables      (* the vtable constants: the function in each slot           *)

genVars == <<program, table, loops, index, types, slots, layout, functions, vtables>>

ASSUME ConstructorNames == {new, init} \cap MethodName = {}

ASSUME BuiltinsAssumption == ~ Repeats(Builtins)

Analysed == INSTANCE Acceptance WITH verdict <- "accepted"

(* The class table of a program the analysis accepts.                      *)
TableOf(p) ==
  [c \in {Object} \cup {p[i].name : i \in DOMAIN p} |->
     IF c = Object THEN ObjectInfo
     ELSE InfoOf(p[CHOOSE i \in DOMAIN p : p[i].name = c])]

-----------------------------------------------------------------------------
(* What a function does when it is called: it is only declared, or left to *)
(* the linker, runs a body, calls another function, or is unreachable code. *)
Function(does, to, m) ==
  [does |-> does, to |-> to, formals |-> m.formals, ret |-> m.ret]

Null     == <<>>
Creation == [name |-> new, formals |-> <<>>, ret |-> Object]

EntryPoint == <<main>>

(* emit_runtime_declarations: Object's functions are left to the linker.   *)
Runtime ==
  [k \in {<<Object, new>>, <<Object, init>>}
           \cup {<<Object, Builtins[i].name>> : i \in DOMAIN Builtins} |->
     Function("external", Null,
              IF k[2] \in {new, init} THEN Creation ELSE GetMember(Builtins, k[2]))]

(* Slips: bodies before the constructors are declared; vtables before the  *)
(* classes are.                                                            *)
LoopsBodiesFirst ==
  <<"vtable types", "class types", "slots", "layouts", "inits", "methods", "news",
    "vtables", "init bodies", "new bodies", "entry">>

(* The loops of generate(), in order.                                      *)
Loops == <<"vtable types", "class types", "slots", "layouts", "inits", "news",
           "methods", "vtables", "init bodies", "new bodies", "entry">>

(* generate() starts with the runtime; its vtable constant is in object.c. *)
GenInit ==
  /\ program \in {p \in Programs : Analysed!WellFormed(p)}
  /\ table = TableOf(program)
  /\ loops = Loops /\ index = 1
  /\ types = {<<"class", Object>>, <<"vtable", Object>>}
  /\ slots = [c \in {} |-> <<>>]
  /\ layout = [c \in {} |-> <<>>]
  /\ functions = Runtime
  /\ vtables = [c \in {Object} |->
                  [i \in DOMAIN Builtins |-> <<Object, Builtins[i].name>>]]

-----------------------------------------------------------------------------
(* One turn of a loop, for the class it is at.                             *)
Current == program[index].name

Turn(loop) ==
  /\ loops # <<>> /\ Head(loops) = loop
  /\ \/ index < Len(program) /\ index' = index + 1 /\ UNCHANGED loops
     \/ index = Len(program) /\ index' = 1 /\ loops' = Tail(loops)
  /\ UNCHANGED <<program, table>>

(* to_llvm finds the struct of a class by its name.                        *)
HasLlvmType(t) == t \in ClassName => <<"class", t>> \in types

HasStructs(c) == {<<"class", c>>, <<"vtable", c>>} \subseteq types

WithFunctions(more) == [x \in DOMAIN functions \cup DOMAIN more |->
                          IF x \in DOMAIN more THEN more[x] ELSE functions[x]]

WithFunction(k, f) == WithFunctions([x \in {k} |-> f])

(* declare_vtable and declare_class: opaque types, to be pointed to.       *)
DeclareVtable ==
  /\ Turn("vtable types")
  /\ types' = types \cup {<<"vtable", Current>>}
  /\ UNCHANGED <<slots, layout, functions, vtables>>

DeclareClass ==
  /\ Turn("class types")
  /\ types' = types \cup {<<"class", Current>>}
  /\ UNCHANGED <<slots, layout, functions, vtables>>

(* finalize_class_vtable: a slot per method that the class has or inherits. *)
LayOutVtable ==
  /\ Turn("slots") /\ HasStructs(Current)
  /\ \E all \in {CollectMethods(table, Current)} :
       /\ \A m \in Range(all) : \A t \in Range(m.formals) \cup {m.ret} : HasLlvmType(t)
       /\ slots' = With(slots, Current, all)
  /\ UNCHANGED <<types, layout, functions, vtables>>

(* finalize_class_struct: the vtable pointer, then a slot per field.       *)
LayOutStruct ==
  /\ Turn("layouts") /\ HasStructs(Current)
  /\ \E all \in {CollectFields(table, Current)} :
       /\ \A f \in Range(all) : HasLlvmType(f.type)
       /\ layout' = With(layout, Current, all)
  /\ UNCHANGED <<types, slots, functions, vtables>>

(* declare_class_init and declare_class_new.                               *)
DeclareInit ==
  /\ Turn("inits") /\ <<"class", Current>> \in types
  /\ functions' = WithFunction(<<Current, init>>, Function("declared", Null, Creation))
  /\ UNCHANGED <<types, slots, layout, vtables>>

DeclareNew ==
  /\ Turn("news") /\ <<"class", Current>> \in types
  /\ functions' = WithFunction(<<Current, new>>, Function("declared", Null, Creation))
  /\ UNCHANGED <<types, slots, layout, vtables>>

(* The classes on a way whose function for the method the module holds.    *)
Having(way, m) == {a \in Range(way) : <<a, m>> \in DOMAIN functions}

(* Slip: the function found is that of the ancestor nearest to Object.     *)
FarthestProvider(way, m) ==
  IF Having(way, m) = {} THEN Null ELSE <<FirstOf(Reverse(way), Having(way, m)), m>>

(* The first function for a method that the module holds on a way towards  *)
(* Object, or none.                                                        *)
Provider(way, m) ==
  IF Having(way, m) = {} THEN Null ELSE <<FirstOf(way, Having(way, m)), m>>

(* Slip: the search starts at the class, where the module has the thunk.   *)
ThunkOfItself(c, m) == Function("call", <<c, m.name>>, m)

(* emit_thunk: a function of this class that calls the implementation of   *)
(* an ancestor, as far as the module holds one yet.                        *)
Thunk(c, m) ==
  LET real == Provider(Tail(Ancestry(table, c)), m.name) IN
  Function(IF real = Null THEN "unreachable" ELSE "call", real, m)

(* emit_methods: the methods of the class, then a thunk for each method it *)
(* has or inherits that the module holds no function of the class for.     *)
FunctionsFor(c, own, all) ==
  LET Named(ms, n) == CHOOSE m \in ms : m.name = n
  IN [k \in {<<c, m.name>> : m \in own \cup all} |->
        IF \E m \in own : m.name = k[2] THEN Function("body", Null, Named(own, k[2]))
        ELSE IF k \in DOMAIN functions THEN functions[k]
        ELSE Thunk(c, Named(all, k[2]))]

EmitMethods ==
  /\ Turn("methods") /\ HasStructs(Current)
  /\ \E all \in {Range(CollectMethods(table, Current))} :
       functions' = WithFunctions(FunctionsFor(Current, Range(program[index].methods), all))
  /\ UNCHANGED <<types, slots, layout, vtables>>

(* Slip: the search starts one level up.                                   *)
VtableSlotOfParent(c, m) ==
  LET fn == Provider(Tail(Ancestry(table, c)), m.name)
  IN IF fn = Null THEN <<Null, Null>> ELSE <<fn>>

(* emit_vtable: a slot no function is found for holds a null pointer, and  *)
(* pushes the others one further.                                          *)
VtableSlot(c, m) ==
  LET fn == Provider(Ancestry(table, c), m.name)
  IN IF fn = Null THEN <<Null, Null>> ELSE <<fn>>

EmitVtable ==
  /\ Turn("vtables") /\ HasStructs(Current)
  /\ \E all \in {CollectMethods(table, Current)} :
       vtables' = With(vtables, Current,
                       FlattenSeq([i \in DOMAIN all |-> VtableSlot(Current, all[i])]))
  /\ UNCHANGED <<types, slots, layout, functions>>

(* emit_class_init stores the class's vtable in the new object, and        *)
(* emit_class_new calls it: an object carries the vtable of its class.     *)
EmitInit ==
  /\ Turn("init bodies") /\ <<"class", Current>> \in types
  /\ \/ /\ <<Current, init>> \in DOMAIN functions /\ Current \in DOMAIN vtables
        /\ functions' = WithFunction(<<Current, init>>, Function("body", Null, Creation))
     \/ <<Current, init>> \notin DOMAIN functions /\ UNCHANGED functions
  /\ UNCHANGED <<types, slots, layout, vtables>>

EmitNew ==
  /\ Turn("new bodies") /\ <<"class", Current>> \in types
  /\ \/ /\ {<<Current, new>>, <<Current, init>>} \subseteq DOMAIN functions
        /\ functions' = WithFunction(<<Current, new>>,
                                     Function("call", <<Current, init>>, Creation))
     \/ <<Current, new>> \notin DOMAIN functions /\ UNCHANGED functions
  /\ UNCHANGED <<types, slots, layout, vtables>>

(* emit_entry_point: makes a Main and calls its main, not by its vtable.   *)
EmitEntryPoint ==
  /\ loops # <<>> /\ Head(loops) = "entry"
  /\ {<<Main, new>>, <<Main, main>>} \subseteq DOMAIN functions
  /\ functions' = WithFunction(EntryPoint,
                    Function("call", <<Main, main>>, functions[<<Main, main>>]))
  /\ loops' = Tail(loops)
  /\ UNCHANGED <<program, table, index, types, slots, layout, vtables>>

GenNext ==
  \/ DeclareVtable \/ DeclareClass \/ LayOutVtable \/ LayOutStruct
  \/ DeclareInit \/ DeclareNew \/ EmitMethods \/ EmitVtable
  \/ EmitInit \/ EmitNew \/ EmitEntryPoint

GenSpec == GenInit /\ [][GenNext]_genVars

(* Slip: only the methods the class declares itself have an index.         *)
OwnVtableIndex(c, m) ==
  IF c \in DOMAIN slots /\ HasMember(table[c].methods, m)
  THEN FirstNamed(slots[c], m) - 1
  ELSE 0

(* get_vtable_index looks the method up in vtable_indices_ with [], which  *)
(* makes up a 0 for what the map does not hold.                            *)
GetVtableIndex(c, m) ==
  IF c \in DOMAIN slots /\ HasMember(slots[c], m)
  THEN FirstNamed(slots[c], m) - 1
  ELSE 0

(* Slip: the first field of the name.                                      *)
FirstFieldIndex(c, f) == FirstNamed(layout[c], f)

(* field_indices_, the slot of a field in the struct of a class.           *)
FieldIndex(c, f) == LastNamed(layout[c], f)

-----------------------------------------------------------------------------
SlotsOf(c) == IF c = Object THEN Builtins ELSE slots[c]

(* An object of a class can be used as one of its parent: an inherited or  *)
(* overridden method keeps its slot, for a call is compiled against the    *)
(* vtable of the static type and reads that of the object's class; and the *)
(* fields are where a thunk, which casts self to an ancestor, finds them.  *)
ClassesExtendTheirParents ==
  /\ \A c \in DOMAIN slots :
       table[c].parent \in DOMAIN slots \cup {Object} =>
         LET above == SlotsOf(table[c].parent) IN
         /\ Len(above) <= Len(slots[c])
         /\ \A i \in DOMAIN above : above[i].name = slots[c][i].name
  /\ \A c \in DOMAIN layout :
       table[c].parent \in DOMAIN layout => IsPrefix(layout[table[c].parent], layout[c])

(* The slot recorded for a field is that of the field lookup_field finds:  *)
(* the one of the nearest ancestor that declares it.                       *)
FieldIndexIsNearest ==
  \A c \in DOMAIN layout :
    LET way == Ancestry(table, c) IN
    \A k \in DOMAIN way : \A i \in DOMAIN table[way[k]].fields :
      LET f == table[way[k]].fields[i] IN
      (\A j \in 1 .. k - 1 : ~ HasMember(table[way[j]].fields, f.name)) =>
        FieldIndex(c, f.name) = Len(CollectFields(table, way[k]))
                                  - Len(table[way[k]].fields) + i

(* Each slot of a vtable constant holds the class's own function for it,   *)
(* of the type the vtable type gives the slot: no null pointer, no slot    *)
(* pushed on, no function of an ancestor that expects another self.        *)
VtablesAreComplete ==
  \A c \in DOMAIN vtables \ {Object} :
    /\ Len(vtables[c]) = Len(slots[c])
    /\ \A i \in DOMAIN vtables[c] :
         /\ vtables[c][i] = <<c, slots[c][i].name>>
         /\ functions[vtables[c][i]].formals = slots[c][i].formals
         /\ functions[vtables[c][i]].ret = slots[c][i].ret

(* A method's body may create objects of any class and call any method of  *)
(* any of them: when a body is translated, all it can name is declared and *)
(* every slot is final.                                                    *)
BodiesFindTheirReferences ==
  (\E k \in DOMAIN functions : functions[k].does = "body") =>
    \A c \in DOMAIN table \ {Object} :
      /\ c \in DOMAIN slots /\ c \in DOMAIN layout
      /\ {<<c, new>>, <<c, init>>} \subseteq DOMAIN functions

=============================================================================
