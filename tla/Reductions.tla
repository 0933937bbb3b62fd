----------------------------- MODULE Reductions -----------------------------
(***************************************************************************)
(* The reduction operators of src/src/backend/reduce_ops.c, as EMPI_Reduce *)
(* and EMPI_Allreduce use them: the MPI of each cluster reduces the        *)
(* operands of its members with its own operator, and the partial results  *)
(* are combined, in an order that differs from one coordinator to another, *)
(* with function(buffer, recvbuf).                                         *)
(*                                                                         *)
(* Vectors are elementwise, so they have one element here.  C types are    *)
(* Width bits wide; signed ones wrap around, as they do in every build.    *)
(***************************************************************************)
EXTENDS Integers, Sequences, FiniteSets, FiniteSetsExt, Functions, Bitwise

CONSTANTS
  Width,        \* bits of an integer type
  ClusterOf,    \* ClusterOf[i] : the cluster of operand i
  Coordinates,  \* bound: the parts of complex operands
  Locations     \* bound: the locations of a pair

Word == 2 ^ Width
Operands == DOMAIN ClusterOf
Clusters == { ClusterOf[i] : i \in Operands }

VARIABLES
  op,        \* the operation
  type,      \* the datatype
  operand,   \* operand[i] : what process i contributes
  left,      \* the clusters whose partial result is not combined yet
  result     \* recvbuf: << >> before the local reduction, else <<value>>
reductionVars == <<op, type, operand, left, result>>

-----------------------------------------------------------------------------
(* Datatypes: the cases of the switches *)

SignedTypes   == {"CHAR", "SHORT", "INT", "LONG", "LONG_LONG_INT", "SIGNED_CHAR"}
UnsignedTypes == {"UNSIGNED_CHAR", "UNSIGNED_SHORT", "WCHAR", "UNSIGNED",
                  "UNSIGNED_LONG", "UNSIGNED_LONG_LONG"}
IntegerTypes  == SignedTypes \cup UnsignedTypes
FloatTypes    == {"FLOAT", "REAL", "REAL4", "DOUBLE", "DOUBLE_PRECISION", "REAL8",
                  "LONG_DOUBLE", "REAL16"}
ComplexTypes  == {"COMPLEX", "DOUBLE_COMPLEX"}
PairTypes     == {"2REAL", "2DOUBLE_PRECISION", "2INT", "2INTEGER", "FLOAT_INT",
                  "DOUBLE_INT", "LONG_INT", "SHORT_INT", "LONG_DOUBLE_INT"}
FortranTypes  == {"INTEGER", "INTEGER2", "INTEGER4", "INTEGER8"}

\* C's conversion of the integer n to type t.  A floating-point type has the
\* integers that the operands combine to without rounding.
Wrap(t, n) ==
  LET u == n % Word
  IN  IF t \in FloatTypes THEN n
      ELSE IF t \in UnsignedTypes \cup {"BYTE"} \/ u < Word \div 2 THEN u ELSE u - Word
Bits(n) == n % Word

Truth(b) == IF b THEN 1 ELSE 0
Lesser(a, b) == IF a < b THEN a ELSE b
Greater(a, b) == IF a > b THEN a ELSE b

-----------------------------------------------------------------------------
(* EMPI_REDUCE_<op>: the types it handles and inoutvec after the call.       *)

MaxTypes == IntegerTypes \cup FloatTypes \cup FortranTypes \cup {"INTEGER1"}
EMPI_REDUCE_MAX(t, in, inout) == Greater(in, inout)

MinTypes == IntegerTypes \cup FloatTypes \cup FortranTypes \cup {"INTEGER1"}
EMPI_REDUCE_MIN(t, in, inout) == Lesser(in, inout)

SumTypes == IntegerTypes \cup FloatTypes \cup FortranTypes \cup ComplexTypes
EMPI_REDUCE_SUM(t, in, inout) ==
  IF t \in ComplexTypes THEN [re |-> inout.re + in.re, im |-> inout.im + in.im]
                        ELSE Wrap(t, in + inout)

ProdTypes == SumTypes
EMPI_REDUCE_PROD(t, in, inout) ==
  IF t \in ComplexTypes THEN [re |-> inout.re * in.re - inout.im * in.im,
                              im |-> inout.im * in.re + inout.re * in.im]
                        ELSE Wrap(t, in * inout)

LogicalTypes == IntegerTypes \cup {"LOGICAL"}
EMPI_REDUCE_LAND(t, in, inout) == Truth(in # 0 /\ inout # 0)
EMPI_REDUCE_LOR(t, in, inout)  == Truth(in # 0 \/ inout # 0)

EMPI_REDUCE_LXOR(t, in, inout) == Truth((in # 0) # (inout # 0))

BitTypes == IntegerTypes \cup {"INTEGER", "BYTE"}
EMPI_REDUCE_BAND(t, in, inout) == Wrap(t, Bits(in) & Bits(inout))
EMPI_REDUCE_BOR(t, in, inout)  == Wrap(t, Bits(in) | Bits(inout))
EMPI_REDUCE_BXOR(t, in, inout) == Wrap(t, Bits(in) ^^ Bits(inout))

\* The variant of MAXLOC keeps its own location when the values are equal.
KeepsLocation(t, in, inout) == IF inout.value < in.value THEN in ELSE inout
EMPI_REDUCE_MAXLOC(t, in, inout) ==
  IF inout.value = in.value
  THEN [inout EXCEPT !.loc = Lesser(inout.loc, in.loc)]
  ELSE IF inout.value < in.value THEN in ELSE inout

EMPI_REDUCE_MINLOC(t, in, inout) ==
  IF inout.value = in.value
  THEN [inout EXCEPT !.loc = Lesser(inout.loc, in.loc)]
  ELSE IF inout.value > in.value THEN in ELSE inout

\* The operators in the table of init_operations.
Function(o, t, in, inout) ==
  CASE o = "MAX" -> EMPI_REDUCE_MAX(t, in, inout)   [] o = "MIN" -> EMPI_REDUCE_MIN(t, in, inout)
    [] o = "SUM" -> EMPI_REDUCE_SUM(t, in, inout)   [] o = "PROD" -> EMPI_REDUCE_PROD(t, in, inout)
    [] o = "LAND" -> EMPI_REDUCE_LAND(t, in, inout) [] o = "LOR" -> EMPI_REDUCE_LOR(t, in, inout)
    [] o = "LXOR" -> EMPI_REDUCE_LXOR(t, in, inout) [] o = "BAND" -> EMPI_REDUCE_BAND(t, in, inout)
    [] o = "BOR" -> EMPI_REDUCE_BOR(t, in, inout)   [] o = "BXOR" -> EMPI_REDUCE_BXOR(t, in, inout)
    [] o = "MAXLOC" -> EMPI_REDUCE_MAXLOC(t, in, inout)
    [] o = "MINLOC" -> EMPI_REDUCE_MINLOC(t, in, inout)
Handled ==
  [MAX |-> MaxTypes, MIN |-> MinTypes, SUM |-> SumTypes, PROD |-> ProdTypes,
   LAND |-> LogicalTypes, LOR |-> LogicalTypes, LXOR |-> LogicalTypes,
   BAND |-> BitTypes, BOR |-> BitTypes, BXOR |-> BitTypes,
   MAXLOC |-> PairTypes, MINLOC |-> PairTypes]
Ops == DOMAIN Handled

-----------------------------------------------------------------------------
(* What the MPI standard says the reduction of the operands f is.            *)

Standard(o, t, f) ==
  LET I       == DOMAIN f
      truth   == { i \in I : f[i] # 0 }
      best    == { i \in I : \A j \in I : IF o = "MAXLOC" THEN f[j].value <= f[i].value
                                                          ELSE f[j].value >= f[i].value }
      bit(k)  == { i \in I : (Bits(f[i]) \div 2 ^ k) % 2 = 1 }
      word(S) == Wrap(t, SumSet({ 2 ^ k : k \in S }))
      Times(u, v) == [re |-> u.re * v.re - u.im * v.im, im |-> u.re * v.im + u.im * v.re]
      Plus(u, v)  == [re |-> u.re + v.re, im |-> u.im + v.im]
  IN  CASE o = "MAX" -> Max({ f[i] : i \in I })
        [] o = "MIN" -> Min({ f[i] : i \in I })
        [] o = "SUM" /\ t \in ComplexTypes -> FoldFunction(Plus, [re |-> 0, im |-> 0], f)
        [] o = "PROD" /\ t \in ComplexTypes -> FoldFunction(Times, [re |-> 1, im |-> 0], f)
        [] o = "SUM"  -> Wrap(t, FoldFunction(LAMBDA m, n : m + n, 0, f))
        [] o = "PROD" -> Wrap(t, FoldFunction(LAMBDA m, n : m * n, 1, f))
        [] o = "LAND" -> Truth(truth = I)
        [] o = "LOR"  -> Truth(truth # {})
        [] o = "LXOR" -> Cardinality(truth) % 2
        [] o = "BAND" -> word({ k \in 0 .. Width - 1 : bit(k) = I })
        [] o = "BOR"  -> word({ k \in 0 .. Width - 1 : bit(k) # {} })
        [] o = "BXOR" -> word({ k \in 0 .. Width - 1 : Cardinality(bit(k)) % 2 = 1 })
        [] OTHER -> [value |-> f[CHOOSE i \in best : TRUE].value,
                     loc   |-> Min({ f[i].loc : i \in best })]

-----------------------------------------------------------------------------
(* A reduction *)

\* One type of each kind stands for the others: they differ in their width.  Two
\* do not fit: the code reduces an array of WCHAR as one of unsigned short, and one of
\* LONG_DOUBLE_INT as one of {double; int}, while MPI has other elements in it.
ValuesOf(t) ==
  CASE t \in PairTypes    -> [value : {0, 1}, loc : Locations]
    [] t \in ComplexTypes -> [re : Coordinates, im : Coordinates]
    [] t \in UnsignedTypes -> 0 .. Word - 1
    [] OTHER              -> -(Word \div 2) .. Word \div 2 - 1
Kinds == {"INT", "UNSIGNED", "DOUBLE", "COMPLEX", "2INT"}

Init ==
  /\ op \in Ops
  /\ type \in Kinds \cap Handled[op]
  /\ operand \in [Operands -> ValuesOf(type)]
  /\ left = Clusters
  /\ result = << >>

\* PMPI_Reduce in cluster c.
Partial(c) == Standard(op, type, Restrict(operand, { i \in Operands : ClusterOf[i] = c }))

\* The root, or a coordinator, starts with the partial result of its cluster.
Start(c) ==
  /\ result = << >>
  /\ result' = <<Partial(c)>>
  /\ left' = left \ {c}
  /\ UNCHANGED <<op, type, operand>>

\* The call of o->function with buffer and recvbuf.
Combine(c) ==
  /\ result # << >>
  /\ c \in left
  /\ result' = <<Function(op, type, Partial(c), result[1])>>
  /\ left' = left \ {c}
  /\ UNCHANGED <<op, type, operand>>

Next == \E c \in Clusters : Start(c) \/ Combine(c)

-----------------------------------------------------------------------------
(* Properties *)

\* The value of a two-level reduction is the one MPI defines for all operands,
\* whatever the clusters and the order in which a coordinator combines the
\* partial results: hence all coordinators compute the same.
ReductionIsStandard ==
  left = {} => result = <<Standard(op, type, operand)>>
=============================================================================
