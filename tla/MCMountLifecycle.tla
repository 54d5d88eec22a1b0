-------------------------- MODULE MCMountLifecycle --------------------------
EXTENDS MountLifecycle

CONSTANTS t1, t2, main, library, gofs, r1, r2, x, y

\* Two threads of a process that uses the library, and the command.
MCProcessOf == [c \in Callers |-> IF c = main THEN gofs ELSE library]

\* The threads can mount one repository at two points and two at one point; the
\* command is a stranger to them at one of these points.
MCPlans == [c \in Callers |->
              CASE c = t1 -> {<<r1, x>>}
                [] c = t2 -> {<<r1, y>>, <<r2, x>>}
                [] c = main -> {<<r1, y>>}]
=============================================================================
