------------------------------ MODULE LineTable ------------------------------
(***************************************************************************)
(* The line numbers of a code object: rows of a difference in lines and a  *)
(* difference in bytes, written by update_line_num_table while the         *)
(* compiler emits instructions (src/src/FunctionScope.cpp) and read by     *)
(* get_current_line when a runtime error is reported (src/src/logging.cpp).*)
(*                                                                         *)
(* Two history variables are kept for the properties. reports has, for     *)
(* each instruction that can fail, the positions ip_ may have when it does *)
(* and the line to report; exact says that no difference in lines has been *)
(* written yet that does not fit a signed byte.                            *)
(***************************************************************************)
EXTENDS Integers, Sequences, FiniteSetsExt

CONSTANTS
    LineSteps,          \* the differences in line of successive tokens
    SilentBytes,        \* the lengths of instructions without a line
    MaxLine,            \* bound: lines of the source
    MaxInstructions     \* bound: instructions of the code object

ASSUME LineTableAssumption ==
    /\ LineSteps \subseteq Int
    /\ SilentBytes \subseteq Nat
    /\ MaxLine \in Nat
    /\ MaxInstructions \in Nat

VARIABLES
    table,      \* line_num_table
    size,       \* the bytes of bytecode
    last_line,  \* last_line_num_
    last_instr, \* last_instr_num_
    count,      \* the number of instructions
    reports,
    exact

vars == <<table, size, last_line, last_instr, count, reports, exact>>

\* Conversions to std::int8_t and std::uint8_t.
BadInt8(x) == x % 256               \* the sign is lost
Int8(x) == ((x + 128) % 256) - 128
UInt8(x) == x % 256
Abs(x) == IF x < 0 THEN -x ELSE x

BadQuotient(x, n) == Abs(x) \div n  \* abs of the difference, as in num_rows

\* The low byte of an int divided by an unsigned int: a negative x is taken
\* modulo 2^32 first, which is written 4 * 2^30 here.
Quotient(x, n) ==
    LET quarter == 1073741824
    IN  IF x >= 0 THEN x \div n
        ELSE 4 * ((quarter \div n) % 64) + ((4 * (quarter % n) + x) \div n)

\* update_line_num_table with a token of that line, when there are n bytes.
Rows(line, n) ==
    LET line_diff == line - last_line
        instr_diff == n - last_instr
        num_rows == Max({Abs(line_diff) \div 128, instr_diff \div 256})
        line_delta == Int8(Quotient(line_diff, num_rows))
        instr_delta == Int8(instr_diff \div num_rows)
    IN  IF num_rows = 0 THEN << <<Int8(line_diff), UInt8(instr_diff)>> >>
        ELSE Append([i \in 1 .. num_rows |-> <<line_delta, UInt8(instr_delta)>>],
                    <<Int8(line_diff - num_rows * line_delta),
                      UInt8(instr_diff - num_rows * instr_delta)>>)

Update(line, n) ==
    /\ table' = table \o Rows(line, n)
    /\ last_instr' = n
    /\ last_line' = line
    /\ exact' = (exact /\ line - last_line \in -128 .. 127)

\* instruction_counter and line after i rows, for each i.
Sums(rows, field) ==
    LET sum[i \in 0 .. Len(rows)] ==
            IF i = 0 THEN 0 ELSE sum[i - 1] + rows[i][field]
    IN  sum

\* get_current_line: the sum of the lines up to the first row at which the sum
\* of the bytes reaches pos, or up to the end. (A sum below 0 is printed modulo
\* 2^32.)
BadReaches(i, pos) == Sums(table, 2)[i] > pos       \* not at pos itself
Reaches(i, pos) == Sums(table, 2)[i] >= pos
get_current_line(pos) ==
    LET last == Min({Len(table)} \cup {i \in DOMAIN table : Reaches(i, pos)})
    IN  Sums(table, 1)[last]

-----------------------------------------------------------------------------
Init ==
    /\ table = <<>> /\ size = 0 /\ last_line = 0 /\ last_instr = 0
    /\ count = 0 /\ reports = {} /\ exact = TRUE

\* The lines of the tokens go up and, after a function or a call over several
\* lines, down.
Emits(k) == count < MaxInstructions /\ count' = count + 1 /\ size' = size + k
Lines == {last_line + d : d \in LineSteps} \cap 1 .. MaxLine
Report(kind, from, line) ==
    reports' = reports \cup
        {[kind |-> kind, ips |-> from .. size', line |-> line,
          exact |-> exact', near |-> Abs(line - last_line) < 256]}

\* Pop, Jump, LoadConstant and others, which have no line and do not fail.
Silent ==
    \E k \in SilentBytes :
        /\ Emits(k)
        /\ UNCHANGED <<table, last_line, last_instr, reports, exact>>

\* Most instructions: the table is updated after the operands, up to two bytes.
Instruction ==
    \E operands \in 0 .. 1, line \in Lines :
        /\ Emits(1 + operands)
        /\ Update(line, size')
        /\ Report("other", size + 1, line)

\* Call and Invoke: the table is updated before the operands, which have been
\* read when the instruction fails.
CallOrInvoke ==
    \E operands \in 1 .. 2, line \in Lines :
        /\ Emits(1 + operands)
        /\ Update(line, size + 1)
        /\ Report("call", size', line)

Next == Silent \/ Instruction \/ CallOrInvoke

Spec == Init /\ [][Next]_vars

-----------------------------------------------------------------------------
\* The rows are pairs of a signed and an unsigned byte.
TypeOK ==
    /\ \A i \in DOMAIN table :
           table[i][1] \in -128 .. 127 /\ table[i][2] \in 0 .. 255
    /\ last_instr \in 0 .. size
    /\ last_line \in 0 .. MaxLine
    /\ exact \in BOOLEAN

\* An error of an instruction other than a call is reported for the line of the
\* instruction, wherever in the instruction ip_ is and whatever rows have been
\* added for the code after it. A difference in lines that does not fit a signed
\* byte is cut off: from there on lines are right only up to a multiple of 256,
\* and the line of the instruction itself if the difference is below 256.
LinesRight ==
    \A r \in reports :
        r.kind = "other" =>
            \A pos \in r.ips :
                /\ r.exact => get_current_line(pos) = r.line
                /\ r.near => (get_current_line(pos) - r.line) % 256 = 0

\* An error of a call is reported for the line of the call.
CallLinesRight ==
    \A r \in reports :
        r.kind = "call" => \A pos \in r.ips : get_current_line(pos) = r.line
=============================================================================
