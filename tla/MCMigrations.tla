----------------------------- MODULE MCMigrations -----------------------------
(* Small instances of Migrations.                                          *)
EXTENDS Migrations, TLC

CONSTANTS r1, r2, r3

F(name, content) == [name |-> name, content |-> content]

(* A release, and the next one; one in which the first file was edited;    *)
(* one in which a file was renamed; and one with a file of another branch, *)
(* beside 2 and before 4, that fills a gap where the second is applied.    *)
MCReleases ==
  {<<F(1, "base")>>,
   <<F(1, "base"), F(2, "index"), F(4, "report")>>,
   <<F(1, "edited"), F(2, "index"), F(5, "more")>>,
   <<F(1, "base"), F(3, "report"), F(5, "more")>>,
   <<F(1, "base"), F(3, "other"), F(4, "report")>>}
MCContents == {"base", "edited", "index", "other", "report", "more"}
MCMakes == [c \in MCContents |-> IF c = "edited" THEN "base" ELSE c]
MCRerunnable == {"index", "other", "edited"}

Symmetry == Permutations(Runners)
===============================================================================
