----------------------------- MODULE MCJobCycle ----------------------------
(***************************************************************************)
(* JobCycle on one or two jobs; the .cfg files choose which of them are    *)
(* gated or delivered as a branch, and one of the sets of setups.          *)
(***************************************************************************)
EXTENDS JobCycle

\* A job's plugin is sound unless it is named.
PluginOf(j, p) == [k \in Job |-> IF k = j THEN p ELSE "sound"]
Installed(p, w, jobs, kills, spend) ==
  [plugin |-> p, watchdog |-> w, jobs |-> jobs, kills |-> kills, spend |-> spend,
   blind |-> IF spend > 1 THEN 1 ELSE 0]
Polling(p, kills, spend) == Installed(p, FALSE, Job, kills, spend)
Watching(p, jobs, spend) == Installed(p, TRUE, jobs, 0, spend)

\* Two jobs where the inbox is polled: with a kill, with days that cost more,
\* with a plugin that raises; one job where it is watched.
PollingOrWatching ==
  {Polling(PluginOf(1, "sound"), 1, 1), Polling(PluginOf(1, "sound"), 0, 3),
   Polling(PluginOf(1, "misplans"), 1, 1),
   Watching(PluginOf(2, "sound"), {2}, 1), Watching(PluginOf(1, "misjudges"), {1}, 4)}

PollingSound == {Polling(PluginOf(1, "sound"), 0, 0)}
PollingKilled == {Polling(PluginOf(1, "sound"), 1, 0)}
WatchingSound == {Watching(PluginOf(1, "sound"), Job, 0)}
=============================================================================
