------------------------------- MODULE SysLoad -------------------------------
(***************************************************************************)
(* The figures of a heartbeat: internal/worker/sysload.go.  Counters are   *)
(* unsigned (of 64 bits), so differences wrap at Modulus.  A percentage is *)
(* computed in float64 there and as a quotient of integers here: they      *)
(* differ only where the rounding of float64 moves a value across a half.  *)
(***************************************************************************)
EXTENDS Integers, Sequences

CONSTANT Modulus        \* one more than the largest counter: 2^64

ASSUME ModulusAssumption == Modulus \in Nat \ {0}

Counter == 0 .. Modulus - 1

Minus(a, b) == IF a >= b THEN a - b ELSE a - b + Modulus
Plus(a, b)  == IF a + b < Modulus THEN a + b ELSE a + b - Modulus

\* clampPct of n / d * 100 for unsigned n and d: at most 100, halves rounded up.
\* (p < 0, the other bound in the code, cannot be.)
ClampPct(n, d) == IF n > d THEN 100 ELSE (200 * n + d) \div (2 * d)

---------------------------------------------------------------------------
(* The processor. *)

Sample == [total : Counter, idle : Counter]

\* The "cpu" line of /proc/stat, after the label; a field that does not parse is
\* skipped.  idle and iowait are the 4th and 5th.
Unparsed == -1

ReadCPUSample(fields) ==
    LET value(i) == IF fields[i] = Unparsed THEN 0 ELSE fields[i]
        sum[i \in 0 .. Len(fields)] == IF i = 0 THEN 0 ELSE Plus(sum[i - 1], value(i))
        iowait == IF Len(fields) >= 5 THEN value(5) ELSE 0
    IN  [ok |-> Len(fields) >= 4,
         total |-> sum[Len(fields)],
         idle |-> IF Len(fields) >= 4 THEN Plus(value(4), iowait) ELSE 0]

\* No figure for samples in the same instant, or for a total that went back.
Comparable(prev, cur) == prev.total < cur.total

CpuPct(prev, cur) ==
    LET dt == Minus(cur.total, prev.total)
        di == Minus(cur.idle, prev.idle)
    IN  ClampPct(Minus(dt, di), dt)

---------------------------------------------------------------------------
(* Memory and disk. *)

\* /proc/meminfo: [key, value] for each line; the last line of a key counts.
ParseMeminfo(lines, key) ==
    LET of == {i \in DOMAIN lines : lines[i].key = key}
        last == CHOOSE i \in of : \A j \in of : j <= i
    IN  IF of = {} \/ lines[last].value = Unparsed THEN 0 ELSE lines[last].value

\* The part of total that is not free; 0 if nothing could be read.
UsedPct(total, free) == IF total = 0 THEN 0 ELSE ClampPct(Minus(total, free), total)

MemPct(lines) == UsedPct(ParseMeminfo(lines, "MemTotal"), ParseMeminfo(lines, "MemAvailable"))

\* statfs: blocks, and the blocks that an unprivileged user may still use.
DiskPct(st) == IF st.ok THEN UsedPct(st.blocks, st.bavail) ELSE 0
=============================================================================
