--------------------------- MODULE AtomicInstall ---------------------------
(***************************************************************************)
(* What scripts/update.sh promises about the installation: an update        *)
(* replaces the whole of it or leaves it as it was.  Only a run that is     *)
(* killed while it renames, a rollback that fails in its turn, or two runs  *)
(* at once may leave anything else.                                         *)
(***************************************************************************)
CONSTANTS
    Releases,
    Whole(_, _)   \* the installation of a release, and the version meta.json shows

VARIABLES
    installed,    \* the installation, while nobody is replacing it
    broken        \* one of the three exceptions has happened

vars == <<installed, broken>>

Init == installed \in {Whole(r, r) : r \in Releases} /\ broken = FALSE

\* A meta.json that could not be renamed is a warning: the components are new
\* and the version shown is the old one.
Replace ==
    /\ ~broken
    /\ \E r, shown \in Releases :
          shown \in {r, installed.meta} /\ installed' = Whole(r, shown)
    /\ UNCHANGED broken

Break == broken' = TRUE

Spec == Init /\ [][Replace \/ Break]_vars
=============================================================================
