------------------------------- MODULE Profiles -------------------------------
(***************************************************************************)
(* Which files a command of crs works on (core/src/config.rs,              *)
(* coursers/src/lib.rs, coursers/src/hook/mod.rs): flags, profile,         *)
(* environment, the project's .ctx directory and the user's configuration, *)
(* in a precedence of its own for each entry point.  A path is who names   *)
(* it and what for.                                                        *)
(***************************************************************************)
NotSet == "unset"
Profile == {NotSet, "codex", "other"}

\* The command line, the environment, what the rules file says of a state file,
\* and which state files are there in .ctx.
Flags == [profile : Profile, rules : {NotSet, "flag"}, state : {NotSet, "flag"}]
Environments ==
    [rules : {NotSet, "env"}, state : {NotSet, "env"}, named : {NotSet, "home", "plain"},
     local : SUBSET {<<"ctx", name>> : name \in Profile}]

NoFlags == [profile |-> NotSet, rules |-> NotSet, state |-> NotSet]

Path(root, name) == <<root, name>>
Or(setting, path) == IF setting # NotSet THEN Path(setting, "file") ELSE path

-----------------------------------------------------------------------------
(* Without a profile: `crs hook`, and the tools that only read             *)

RulesPath(env) == Or(env.rules, Path("config", "rules"))

\* Mutation of StatePathDefault: what is in .ctx wins over the environment.
StatePathLocalFirst(env) ==
    IF <<"ctx", NotSet>> \in env.local THEN <<"ctx", NotSet>>
    ELSE Or(env.state, Path("config", "state"))

\* state_path_default: the environment, the project, the user.
StatePathDefault(env) ==
    IF env.state # NotSet THEN Path(env.state, "file")
    ELSE IF <<"ctx", NotSet>> \in env.local THEN <<"ctx", NotSet>>
    ELSE Path("config", "state")

\* state_path: the rules file may name one, in the home directory or not.
StatePath(env) ==
    IF env.named # NotSet THEN Path(env.named, "named") ELSE StatePathDefault(env)

\* hook_stores.
HookFiles(env) == [rules |-> RulesPath(env), state |-> StatePath(env), protocol |-> "claude"]

-----------------------------------------------------------------------------
(* With one: ConfigBuilder::build and effective_state_path                 *)

Build(flags, env) ==
    LET named == flags.profile # NotSet
        rules == IF named THEN Path(flags.profile, "rules") ELSE RulesPath(env)
        global == IF named THEN Path(flags.profile, "state")
                  ELSE Or(env.state, Path("config", "state"))
    IN [rules |-> Or(flags.rules, rules), global |-> Or(flags.state, global),
        local |-> <<"ctx", flags.profile>>,
        protocol |-> IF flags.profile = "codex" THEN "codex" ELSE "claude"]

\* Mutation of EffectiveStatePath: the flag for the state file wins.
EffectiveFlagFirst(profile, env) ==
    IF profile.local \in env.local /\ profile.global # Path("flag", "file")
    THEN profile.local ELSE profile.global

EffectiveStatePath(profile, env) ==
    IF profile.local \in env.local THEN profile.local ELSE profile.global

\* rules_loader and state_store, for the chain.
Stores(profile, env) ==
    [rules |-> profile.rules, state |-> EffectiveStatePath(profile, env)]

\* hook_context_with_profile: these and the protocol.
ProfileFiles(profile, env) ==
    LET stores == Stores(profile, env)
    IN [rules |-> stores.rules, state |-> stores.state, protocol |-> profile.protocol]

\* run (lib.rs): the commands that have a profile, the adapter, which takes the
\* one without a name, and those that have none.
CommandFiles(command, flags, env) ==
    CASE command \in {"pre", "post", "discover", "validate", "probe", "suggest"} ->
            ProfileFiles(Build(flags, env), env)
      [] command = "opencode" -> ProfileFiles(Build(NoFlags, env), env)
      [] command \in {"hook", "history", "export"} -> HookFiles(env)

-----------------------------------------------------------------------------
(* Properties *)

\* What one hook learns the other has to see: OpenCode, with any flags, and
\* `crs hook` work on the state file of a bare `crs post`; the latter unless the
\* rules file names another, or both the environment and the project do.  The
\* rules are those of `crs pre` in any case.
MemoryIsShared(flags, env) ==
    LET hook == CommandFiles("hook", NoFlags, env)
        post == CommandFiles("post", NoFlags, env)
        contested == env.state # NotSet /\ <<"ctx", NotSet>> \in env.local
    IN /\ CommandFiles("opencode", flags, env) = post
       /\ hook.rules = post.rules
       /\ (hook.state = post.state) <=> (env.named = NotSet /\ ~contested)

\* ConfigBuilder: a profile's files are its own: without an override on the
\* command line two profiles share neither rules nor state, whatever the
\* environment sets and whichever .ctx files are there, and the environment
\* moves no file of a profile.  The flag for the state file replaces the user's
\* file and never the project's ("Override global state file path").
ProfilesAreApart(flags, env) ==
    LET files == CommandFiles("post", flags, env)
        bare == [env EXCEPT !.rules = NotSet, !.state = NotSet, !.named = NotSet]
    IN /\ \A other \in Profile \ {flags.profile} :
             LET theirs == CommandFiles("post", [flags EXCEPT !.profile = other], env)
             IN /\ flags.rules = NotSet => files.rules # theirs.rules
                /\ flags.state = NotSet => files.state # theirs.state
       /\ flags.profile # NotSet => files = CommandFiles("post", flags, bare)
       /\ flags.state # NotSet =>
             files.state = IF <<"ctx", flags.profile>> \in env.local
                           THEN <<"ctx", flags.profile>> ELSE Path("flag", "file")

=============================================================================
