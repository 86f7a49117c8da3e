-------------------------- MODULE MCClientCache --------------------------
(* The query cache on small instances.                                     *)
EXTENDS ClientCache, TLC

CONSTANTS c1, c2, a, b

ListKeys == {"notifications", "preferences"}

ListHooks == {"markRead", "setPreferences"}

ListScreens == {{}, {"notifications", "preferences"}}

ListSignals == {"notifications"}

TaskHooks == {"createTask", "updateTask", "deleteTask", "reorderTasks"}

TaskScreens == {{}, {"tasks"}}

EachAlike == Permutations(Calls) \cup Permutations(Users)
=============================================================================
