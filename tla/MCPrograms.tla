----------------------------- MODULE MCPrograms -----------------------------
EXTENDS Programs

\* One game is like another.
GamesAlike == Permutations(Game)
=============================================================================
