------------------------------ MODULE MCBotPr ------------------------------
(***************************************************************************)
(* Instances of BotPr.                                                     *)
(***************************************************************************)
EXTENDS BotPr

Dependabot(eco, update, deps) ==
  [author |-> "dependabot", eco |-> eco, update |-> update, group |-> "", deps |-> deps,
   docs |-> FALSE]

\* A bump of the frappe input, one of an input that a rollout moves, and a major npm bump.
MCMetas ==
  {Dependabot("nix", "", {"frappe"}), Dependabot("nix", "", {"frappe-nix"}),
   Dependabot("npm_and_yarn", "major", {"other"})}

\* With an App and every gate required, with GITHUB_TOKEN, and where the gates are not.
Setting(app, gates, table) == [byApp |-> app, protected |-> gates, policy |-> table]
MCConfs == {Setting(TRUE, TRUE, "decision-table"), Setting(FALSE, TRUE, "all"),
            Setting(TRUE, FALSE, "all")}
MCOneMeta == {Dependabot("nix", "", {"frappe"})}
MCOneConf == {Setting(TRUE, TRUE, "all")}
=============================================================================
