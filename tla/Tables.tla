------------------------------- MODULE Tables -------------------------------
(***************************************************************************)
(* The tables from handles of EMPI to objects of MPI, in one process:      *)
(* datatypes, operations, files and infos (datatype.c, operation.c, file.c *)
(* and info.c in src/src/backend, and the calls in empi.c that add to      *)
(* them, remove from them, and hand what they find there to MPI).          *)
(*                                                                         *)
(* Objects of MPI are numbers; the predefined object with handle h is -h.  *)
(* MPI may use the number of an object that was freed again.  A call ends  *)
(* the process with an ERROR when the table it adds to is full, or when a  *)
(* handle it is given stands for nothing: the calls below go well.         *)
(***************************************************************************)
EXTENDS Integers, FiniteSets, FiniteSetsExt, Functions, TLC

CONSTANTS
  Objects,         \* bound: Objects[k] are the objects of MPI of kind k
  DerivedTypes,    \* bound: slots for derived datatypes, MAX_DATATYPES - EMPI_DEFINED_DATATYPES
  MAX_OPERATIONS, MAX_FILES, MAX_INFOS,
  BasicTypes       \* bound: the predefined datatypes the program uses

None == 0
DEFINED_DATATYPES == 42
INFO_NULL == -1

\* init_datatypes and init_operations: which handles are taken from the start.
NullType         == 0
CTypes           == 1 .. 17
PairTypes        == 18 .. 23
FortranTypes     == 24 .. 29
OptionalTypes    == (30 .. 34) \cup (36 .. 38)   \* REAL2 is commented out
FortranPairTypes == 39 .. 41
DefinedTypes == CTypes \cup PairTypes \cup FortranTypes \cup OptionalTypes \cup FortranPairTypes
DefinedOperations == 0 .. 12

\* Objects are positive numbers, and the tables have room for what is predefined.
ASSUME TablesAssumption ==
  /\ \A k \in {"type", "operation", "file", "info"} : Objects[k] \subseteq Nat \ {None}
  /\ DerivedTypes \in Nat /\ MAX_OPERATIONS \in Nat /\ MAX_FILES \in Nat /\ MAX_INFOS \in Nat
  /\ DefinedOperations \subseteq 0 .. MAX_OPERATIONS - 1
  /\ BasicTypes \subseteq DefinedTypes

VARIABLES
  types, operations, files, infos, \* the tables: handle -> object, None if the slot is free
  next_operation, next_file, next_info,
  held,  \* kind -> the <<handle, object>> the program has been given, and not given back
  passed \* the <<kind, handle, object>> that the last call has handed to MPI
tableVars == <<types, operations, files, infos, next_operation, next_file, next_info,
               held, passed>>

Kinds == {"type", "operation", "file", "info"}

\* MPI_DATATYPE_NULL and MPI_OP_NULL have handles as well; EMPI_REAL16 stands for
\* MPI_LONG_DOUBLE, because "MPI on DAS4 is ancient".
DefinedType(h) == CASE h = NullType -> -DEFINED_DATATYPES
                    [] h = 38 -> -14
                    [] h \in DefinedTypes \ {38} -> -h
                    [] OTHER -> None

DefinedOperation(h) == IF h \in DefinedOperations THEN -h - 1 ELSE None

TablesInit ==
  /\ types = [h \in 0 .. DEFINED_DATATYPES + DerivedTypes - 1 |-> DefinedType(h)]
  /\ operations = [h \in 0 .. MAX_OPERATIONS - 1 |-> DefinedOperation(h)]
  /\ next_operation = Max(DefinedOperations) + 1
  /\ files = [h \in 0 .. MAX_FILES - 1 |-> None] /\ next_file = 0
  /\ infos = [h \in 0 .. MAX_INFOS - 1 |-> None] /\ next_info = 0
  /\ held = [k \in Kinds |-> {}] /\ passed = {}

\* A new object of MPI.
IsNew(o, table) == o \notin Range(table)

\* The program gets a handle, and loses it.
Hand(kind, h, o) == held' = [held EXCEPT ![kind] = @ \cup {<<h, o>>}]
TakeBack(kind, h) == \E o \in Objects[kind] : /\ <<h, o>> \in held[kind]
                                              /\ held' = [held EXCEPT ![kind] = @ \ {<<h, o>>}]

FreeSlots(table) == { h \in DOMAIN table : table[h] = None }

Table(kind) == CASE kind = "type" -> types [] kind = "operation" -> operations
                 [] kind = "file" -> files [] kind = "info" -> infos

\* The handles a program may pass to a call: those it has, and the predefined ones.
Basic(kind)  == IF kind = "type" THEN { <<h, DefinedType(h)>> : h \in BasicTypes } ELSE {}
Usable(kind) == { p[1] : p \in held[kind] \cup Basic(kind) }

\* handle_to_datatype, _file and _info, behind the macros H2T, H2F and H2I: a call finds
\* all its handles in the tables and hands what they stand for to MPI.
Found(arguments) == \A a \in arguments : a[2] \in DOMAIN Table(a[1]) /\ Table(a[1])[a[2]] # None
Pass(arguments) ==
  /\ Found(arguments)
  /\ passed' = { <<a[1], a[2], Table(a[1])[a[2]]>> : a \in arguments }

\* An info argument may be EMPI_INFO_NULL, which is MPI_INFO_NULL.
InfoArgument(i) == IF i = INFO_NULL THEN {} ELSE {<<"info", i>>}

-----------------------------------------------------------------------------
(* Datatypes *)

\* add_datatype: the first free slot behind the predefined types.
FreeTypes == { h \in FreeSlots(types) : h >= DEFINED_DATATYPES }

\* EMPI_Type_contiguous, _indexed, _hvector and _create_indexed_block, from another
\* type.
CreateType(o, old) ==
  /\ Pass({<<"type", old>>})
  /\ IsNew(o, types) /\ FreeTypes # {}
  /\ types' = [types EXCEPT ![Min(FreeTypes)] = o]
  /\ Hand("type", Min(FreeTypes), o)
  /\ UNCHANGED <<operations, files, infos, next_operation, next_file, next_info>>

\* EMPI_Type_free, of a derived type.
FreeType(h) ==
  /\ types[h] # None
  /\ types' = [types EXCEPT ![h] = None]
  /\ TakeBack("type", h)
  /\ passed' = {}
  /\ UNCHANGED <<operations, files, infos, next_operation, next_file, next_info>>

\* EMPI_Type_commit, _get_name, _size, _ub and _get_envelope, EMPI_Pack, EMPI_Pack_size
\* and EMPI_Unpack.
UseType(h) ==
  /\ Pass({<<"type", h>>})
  /\ UNCHANGED <<types, operations, files, infos, next_operation, next_file, next_info, held>>

-----------------------------------------------------------------------------
(* Operations *)

\* EMPI_Op_create.  The check in init_operation lets the handle MAX_OPERATIONS pass,
\* which is behind the end of the table: the program stops before that.
CreateOperation(o) ==
  /\ IsNew(o, operations)
  /\ next_operation < MAX_OPERATIONS
  /\ operations' = [operations EXCEPT ![next_operation] = o]
  /\ next_operation' = next_operation + 1
  /\ Hand("operation", next_operation, o)
  /\ passed' = {}
  /\ UNCHANGED <<types, files, infos, next_file, next_info>>

-----------------------------------------------------------------------------
(* Files and infos *)

\* add_file and add_info: the slots one after the other, and from the end of the
\* table on the first that is free.
NextSlot(table, next, max) == IF next < max THEN next ELSE Min(FreeSlots(table))
HasSlot(table, next, max) == next < max \/ FreeSlots(table) # {}

\* EMPI_File_open, on a communicator within a cluster.
OpenFile(o, i) ==
  LET handle == NextSlot(files, next_file, MAX_FILES)
  IN  /\ Pass(InfoArgument(i))
      /\ IsNew(o, files)
      /\ HasSlot(files, next_file, MAX_FILES)
      /\ files' = [files EXCEPT ![handle] = o]
      /\ next_file' = IF handle >= next_file THEN next_file + 1 ELSE next_file
      /\ Hand("file", handle, o)
      /\ UNCHANGED <<types, operations, infos, next_operation, next_info>>

\* EMPI_File_close and remove_file, which leaves next_file alone.  The variant
\* counts it down.
CountDown == next_file' = next_file - 1
KeepCount == next_file' = next_file

CloseFile(h) ==
  /\ files[h] # None
  /\ files' = [files EXCEPT ![h] = None]
  /\ KeepCount
  /\ TakeBack("file", h)
  /\ passed' = {}
  /\ UNCHANGED <<types, operations, infos, next_operation, next_info>>

\* EMPI_File_read_all, _read_at, _write_at and _write_all.
UseFile(h, t) ==
  /\ Pass({<<"file", h>>, <<"type", t>>})
  /\ UNCHANGED <<types, operations, files, infos, next_operation, next_file, next_info, held>>

\* EMPI_File_set_view, with the types of the elements and of the file.
SetView(h, etype, filetype, i) ==
  /\ Pass({<<"file", h>>, <<"type", etype>>, <<"type", filetype>>} \cup InfoArgument(i))
  /\ UNCHANGED <<types, operations, files, infos, next_operation, next_file, next_info, held>>

\* EMPI_Info_create.
CreateInfo(o) ==
  LET handle == NextSlot(infos, next_info, MAX_INFOS)
  IN  /\ IsNew(o, infos)
      /\ HasSlot(infos, next_info, MAX_INFOS)
      /\ infos' = [infos EXCEPT ![handle] = o]
      /\ next_info' = IF handle >= next_info THEN next_info + 1 ELSE next_info
      /\ Hand("info", handle, o)
      /\ passed' = {}
      /\ UNCHANGED <<types, operations, files, next_operation, next_file>>

\* EMPI_Info_free and remove_info.
FreeInfo(h) ==
  /\ infos[h] # None
  /\ infos' = [infos EXCEPT ![h] = None]
  /\ TakeBack("info", h)
  /\ passed' = {}
  /\ UNCHANGED <<types, operations, files, next_operation, next_file, next_info>>

\* EMPI_Info_set and EMPI_Info_delete.
UseInfo(h) ==
  /\ Pass({<<"info", h>>})
  /\ UNCHANGED <<types, operations, files, infos, next_operation, next_file, next_info, held>>

TypeCall ==
  \E h \in Usable("type") : FreeType(h) \/ UseType(h) \/ (\E o \in Objects["type"] : CreateType(o, h))
FileCall ==
  \/ \E i \in Usable("info") \cup {INFO_NULL} :
       \/ \E o \in Objects["file"] : OpenFile(o, i)
       \/ \E h \in Usable("file"), etype, filetype \in Usable("type") : SetView(h, etype, filetype, i)
  \/ \E h \in Usable("file") : CloseFile(h) \/ \E t \in Usable("type") : UseFile(h, t)
InfoCall ==
  \/ \E o \in Objects["info"] : CreateInfo(o)
  \/ \E h \in Usable("info") : FreeInfo(h) \/ UseInfo(h)

TablesNext == TypeCall \/ (\E o \in Objects["operation"] : CreateOperation(o)) \/ FileCall \/ InfoCall

TablesSpec == TablesInit /\ [][TablesNext]_tableVars

-----------------------------------------------------------------------------
(* Properties *)

Defined == [k \in Kinds |-> CASE k = "type" -> DefinedTypes \cup {NullType}
                              [] k = "operation" -> DefinedOperations
                              [] OTHER -> {}]

\* Whatever was created and freed before: a handle denotes the object it was given
\* out for as long as the program has it, two handles never share a slot, no slot
\* is taken that no handle leads to, and what a call hands to MPI is what the program
\* was given its handles for.
HandlesResolve ==
  /\ \A u \in passed : <<u[2], u[3]>> \in held[u[1]] \cup Basic(u[1])
  /\ \A k \in Kinds :
       LET handles == { p[1] : p \in held[k] }
       IN  /\ \A p \in held[k] : Table(k)[p[1]] = p[2]
           /\ DOMAIN Table(k) \ FreeSlots(Table(k)) = Defined[k] \cup handles
           /\ Defined[k] \cap handles = {}
=============================================================================
