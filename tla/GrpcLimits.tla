------------------------------ MODULE GrpcLimits ------------------------------
(***************************************************************************)
(* The per-message receive size from GRPC_MAX_RECV_MSG_SIZE                 *)
(* (src/src/grpc_limits.rs).  A digit string is its value and its number of *)
(* digits; a quantity is                                                    *)
(*   sign      "none", "+", or "other" for anything else that is no digit   *)
(*   integer   the digits before the point                                  *)
(*   point     whether there is a decimal point                             *)
(*   fraction  the digits after it                                          *)
(*   suffix    "none", one of the Suffixes, or another                      *)
(* usize and u128 are the widths of a run, and so are the multipliers.      *)
(***************************************************************************)
EXTENDS Naturals

CONSTANTS
  MaxUsize,        \* usize::MAX
  MaxU128,         \* u128::MAX
  Multipliers,     \* the value of every suffix
  DefaultMaxBody,  \* DEFAULT_MAX_BODY_BYTES
  Headroom,        \* GRPC_RECV_FRAMING_HEADROOM
  CompiledRecv     \* GRPC_COMPILED_MAX_RECV_DEFAULT

\* SUFFIXES: a quantity ends with the longest of them that fits
Suffixes == {"Ki", "Mi", "Gi", "K", "k", "M", "G"}

\* DEFAULT_GRPC_MAX_RECV_MSG_SIZE
DefaultRecv == DefaultMaxBody + Headroom

ASSUME GrpcLimitsAssumption ==
  /\ MaxUsize \in Nat
  /\ MaxU128 \in Nat
  /\ MaxUsize <= MaxU128
  /\ Multipliers \in [Suffixes -> 1..MaxU128]
  /\ DefaultMaxBody \in Nat \ {0}
  /\ Headroom \in Nat
  /\ CompiledRecv \in 1..MaxUsize
  /\ DefaultRecv <= MaxUsize

\* A variable that is set to a quantity: there is a fraction only behind a point,
\* and no digits are worth nothing.
RecvEnv(env) ==
  /\ env.kind \in {"unset", "not_unicode", "quantity"}
  /\ env.kind = "quantity" =>
       LET q == env.quantity
           digits == [value : Nat, digits : Nat]
       IN /\ q.integer \in digits /\ q.fraction \in digits
          /\ ~q.point => q.fraction.digits = 0
          /\ 10 ^ q.fraction.digits \in Nat
          /\ q.fraction.value < 10 ^ q.fraction.digits

\* Every parse ends with a size or an error; an error is size 0 here.
Failed == [ok |-> FALSE, size |-> 0]
Size(n) == [ok |-> TRUE, size |-> n]

Checked(n) == IF n > MaxU128 THEN Failed ELSE Size(n)

\* str::parse::<usize>: digits with an optional plus sign
PlainInteger(q) ==
  /\ q.sign \in {"none", "+"}
  /\ q.integer.digits > 0
  /\ ~q.point
  /\ q.suffix = "none"
  /\ q.integer.value <= MaxUsize

\* split_decimal_parts
DecimalParts(q) ==
  /\ q.sign # "other"
  /\ q.integer.digits > 0 \/ q.fraction.digits > 0

\* Mutant: fractions of a byte are cut off.
ScaleAndFloor(integer, scale, fractional, mul) ==
  LET scaled == (integer * scale + fractional) * mul
  IN IF scaled > MaxU128 THEN Failed ELSE Size(scaled \div scale)

\* scale_and_ceil: the products are checked one by one, and each is at least as
\* large as the one before unless mul is zero, so the last one decides.
ScaleAndCeil(integer, scale, fractional, mul) ==
  LET scaled == (integer * scale + fractional) * mul
  IN IF scaled > MaxU128 THEN Failed
     ELSE IF scaled % scale = 0 THEN Size(scaled \div scale)
     ELSE Checked((scaled \div scale) + 1)

\* parse_decimal_quantity with parse_u128_or_zero and fractional_digits
ParseDecimalQuantity(q, mul) ==
  IF \/ ~DecimalParts(q)
     \/ q.integer.value > MaxU128
     \/ 10 ^ q.fraction.digits > MaxU128
  THEN Failed
  ELSE ScaleAndCeil(q.integer.value, 10 ^ q.fraction.digits, q.fraction.value, mul)

\* parse_k8s_quantity with u128_to_usize
ParseK8sQuantity(q) ==
  IF q.suffix \notin Suffixes THEN Failed
  ELSE LET bytes == ParseDecimalQuantity(q, Multipliers[q.suffix])
       IN IF ~bytes.ok \/ bytes.size = 0 \/ bytes.size > MaxUsize THEN Failed ELSE bytes

\* parse_msg_size_bytes
ParseMsgSizeBytes(q) ==
  IF PlainInteger(q) THEN Size(q.integer.value) ELSE ParseK8sQuantity(q)

\* resolve_grpc_max_recv_msg_size: env is "unset" (or blank), "not_unicode", or
\* "quantity" with a quantity
ResolveGrpcMaxRecvMsgSize(env) ==
  CASE env.kind = "unset" -> Size(DefaultRecv)
    [] env.kind = "not_unicode" -> Failed
    [] OTHER -> LET n == ParseMsgSizeBytes(env.quantity)
                IN IF n.size = 0 THEN Failed ELSE n

\* The size a quantity stands for, in units of 1/10^digits of a byte.
Exact(q) ==
  (q.integer.value * 10 ^ q.fraction.digits + q.fraction.value)
    * IF q.suffix = "none" THEN 1 ELSE Multipliers[q.suffix]
=============================================================================
