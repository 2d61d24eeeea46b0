------------------------------ MODULE NodeName ------------------------------
(***************************************************************************)
(* The names of nodes (src/src/node_name.rs): a node-name of a restricted  *)
(* alphabet and perhaps, after the first "@", a unit address, a number in  *)
(* base 16.  Two names are equal when their parts are.                     *)
(***************************************************************************)
EXTENDS ByteStrings, Checks

CONSTANTS MaxNodeNameLength, (* 31 in the code                             *)
          AddressDigits      (* the width of a unit address in digits of   *)
                             (* base 16: 16, those of a `u64`              *)

ASSUME NameBoundsAssumption ==
  MaxNodeNameLength \in Nat /\ AddressDigits \in Nat \ {0}

At    == 64
Plus  == 43

Digits == 48..57

(* Letters, digits, comma, period, underscore, plus sign and dash.         *)
Chars == Digits \cup 65..90 \cup 97..122 \cup {Comma, 46, 95, Plus, Dash}

HexDigits == Digits \cup 65..70 \cup 97..102

ValueOf(digit) ==
  CASE digit \in Digits  -> digit - 48
    [] digit \in 65..70  -> digit - 55
    [] digit \in 97..102 -> digit - 87

DigitOf(value) == IF value < 10 THEN value + 48 ELSE value + 87

WithoutSign(s) == IF s # <<>> /\ s[1] = Plus THEN Tail(s) ELSE s

(* The number that these digits stand for.                                 *)
InBase(base, digits) ==
  LET number[i \in 0..Len(digits)] ==
        IF i = 0 THEN 0 ELSE base * number[i - 1] + ValueOf(digits[i])
  IN  number[Len(digits)]

PowerOf16[n \in 0..AddressDigits] == IF n = 0 THEN 1 ELSE 16 * PowerOf16[n - 1]

NumberInDecimal(s) ==
  LET digits == WithoutSign(s)
      number == InBase(10, digits)
  IN  IF digits = <<>> \/ ~ ToSet(digits) \subseteq HexDigits THEN None
      ELSE IF number < PowerOf16[AddressDigits] THEN number ELSE None

(* u64::from_str_radix: a plus sign and leading zeros are accepted, other  *)
(* signs and a number that does not fit are not.                           *)
FromStrRadix(s) ==
  LET digits == WithoutSign(s)
      number == InBase(16, digits)
  IN  IF digits = <<>> \/ ~ ToSet(digits) \subseteq HexDigits THEN None
      ELSE IF number < PowerOf16[AddressDigits] THEN number ELSE None

(* The node-name and the text of the unit address, if there is one.        *)
PartsOf(bytes) ==
  LET parts == SplitAtFirst(bytes, At) IN IF parts = None THEN <<bytes>> ELSE parts

HasAddress(bytes) == Len(PartsOf(bytes)) = 2

(* NameRef::try_from.  A comma in the unit address panics before anything  *)
(* else is looked at.                                                      *)
NameChecks(bytes) ==
  LET parts == PartsOf(bytes)
  IN  <<Check("panic", HasAddress(bytes) => Comma \notin ToSet(parts[2])),
        Check("TooLong", Len(parts[1]) <= MaxNodeNameLength),
        Check("InvalidCharacters",
              /\ ToSet(parts[1]) \subseteq Chars
              /\ HasAddress(bytes) => FromStrRadix(parts[2]) # None)>>

NameRef(bytes) ==
  [node_name    |-> PartsOf(bytes)[1],
   unit_address |-> IF HasAddress(bytes) THEN FromStrRadix(PartsOf(bytes)[2]) ELSE None]

(* A number in base 16, from its last digit to the first that is not a    *)
(* leading zero.                                                           *)
Hex(number) ==
  LET quotient[i \in 0..AddressDigits] == IF i = 0 THEN number ELSE quotient[i - 1] \div 16
      width == CHOOSE w \in 1..AddressDigits : quotient[w] = 0 /\ (w = 1 \/ quotient[w - 1] # 0)
  IN  [i \in 1..width |-> DigitOf(quotient[width - i] % 16)]

(* How a name is printed.                                                  *)
Display(name) ==
  IF name.unit_address = None THEN name.node_name
  ELSE Append(name.node_name, At) \o Hex(name.unit_address)
=============================================================================
