---------------------------- MODULE MCColconBuild ----------------------------
(* Two ament packages; a CMake package after a Rust one; two Rust packages.   *)
(* Interface packages of the underlay (u, v) and of the workspace (w, x).     *)
EXTENDS ColconBuild

CONSTANTS a1, a2, n1, n2, n3, u, v, w, x

Kinds == [p \in Pkg |-> IF p \in {a1, a2} THEN "ament" ELSE IF p = n2 THEN "cmake" ELSE "rust"]
Order == [p \in Pkg |-> IF p = n2 THEN {n1} ELSE {}]
\* The interface packages of the workspace use installed ones and each other; and
\* w one that no package names.
IfaceDeps == [i \in Iface |-> CASE i \in {u, w} -> {v} [] i = x -> {w} [] OTHER -> {}]
DeepDeps == [i \in Iface |-> CASE i = u -> {v} [] i = w -> {v, x} [] OTHER -> {}]
OnlyAment == {{a1, a2}}
Names == [p \in Pkg |-> CASE p = a1 -> {u} [] p = a2 -> {w} [] OTHER -> {u}]
Some == {{a1, a2}, {n1, n2}, {n1, n3}}
Added == <<a2, x>>
=============================================================================
