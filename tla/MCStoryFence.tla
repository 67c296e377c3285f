---------------------------- MODULE MCStoryFence ----------------------------
EXTENDS StoryFence

CONSTANTS p1, p2

\* Both players start on a stage of their own choice; they differ in nothing else.
PlayerSymmetry == Permutations(Players)
=============================================================================
