---------------------------- MODULE MCSnapshots ----------------------------
\* Two roots; in the first one a rule file, a tracked file and one that may be
\* ignored.  The operation of the second root is not confined.
EXTENDS Snapshots

CONSTANTS rules, src, env, lib, a, b, job, daemon, v0, v1, absent

MCPath == {rules, src, env, lib}
MCRoot == {a, b}
MCRootOf == [p \in MCPath |-> IF p = lib THEN b ELSE a]
MCTracked == {src, lib}
MCHead == [p \in MCPath |-> IF p \in MCTracked THEN {v0} ELSE absent]
MCFirst == [p \in MCPath |-> IF p = rules THEN {env} ELSE {v0}]
MCContents == [p \in MCPath |-> IF p = rules THEN {absent, {env}}
                                ELSE IF p = env THEN {absent, {v0}, {v1}} ELSE {{v0}, {v1}}]
MCOpRoot == [o \in {job, daemon} |-> IF o = job THEN a ELSE b]

=============================================================================
