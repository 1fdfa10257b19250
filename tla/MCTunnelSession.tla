--------------------------- MODULE MCTunnelSession ---------------------------
(* TunnelSession, and what SysLoad computes for its heartbeats on small counters. *)
EXTENDS TunnelSession, SysLoad

\* r is 100 * n / d, rounded to the nearest.
Rounds(r, n, d) == r \in 0 .. 100 /\ 2 * d * r - d <= 200 * n /\ 200 * n < 2 * d * r + d

\* All that two samples of a line with four to six fields can say, counters that
\* went back, wrapped or were not read included (cpuPct, readCPUSample).
ASSUME CpuFigures ==
    \A p, c \in Sample :
        Comparable(p, c) =>
            LET dt == c.total - p.total
                di == c.idle - p.idle
            IN  /\ CpuPct(p, c) \in 0 .. 100
                /\ di \in 0 .. dt => Rounds(CpuPct(p, c), dt - di, dt)
                /\ di > dt => CpuPct(p, c) = 100
                /\ di < 0 /\ p.idle <= p.total => CpuPct(p, c) = 100

ASSUME SampleSums ==
    \A fields \in UNION {[1 .. n -> {Unparsed, 0, 2, 3}] : n \in 3 .. 6} :
        LET s == ReadCPUSample(fields)
        IN  /\ s.ok <=> Len(fields) > 3
            /\ s.total \in Counter /\ s.idle \in Counter
            /\ (\A i \in DOMAIN fields : fields[i] \in {Unparsed, 0, 2}) => s.idle <= s.total

\* Memory and disk: a line that is missing counts as 0, and free beyond total as full.
Lines == UNION {[1 .. n -> [key : {"MemTotal", "MemAvailable"}, value : {Unparsed, 0, 3, 5}]] : n \in 0 .. 3}

ASSUME MemFigures ==
    \A lines \in Lines :
        LET total == ParseMeminfo(lines, "MemTotal")
            free  == ParseMeminfo(lines, "MemAvailable")
        IN  IF total = 0 THEN MemPct(lines) = 0
            ELSE IF free > total THEN MemPct(lines) = 100
            ELSE Rounds(MemPct(lines), total - free, total)

ASSUME DiskFigures ==
    \A st \in [ok : BOOLEAN, blocks : Counter, bavail : Counter] :
        IF ~st.ok \/ st.blocks = 0 THEN DiskPct(st) = 0
        ELSE IF st.bavail > st.blocks THEN DiskPct(st) = 100
        ELSE Rounds(DiskPct(st), st.blocks - st.bavail, st.blocks)
=============================================================================
