---------------------------- MODULE MCHookDispatch ----------------------------
(***************************************************************************)
(* Instances of HookDispatch for TLC.  The chain rewrites find to fd; the  *)
(* pipeline may rewrite fd to rg and rg to fd, deny, notify, run programs  *)
(* and redact, before and after the tool.                                  *)
(***************************************************************************)
EXTENDS HookDispatch, TLC

CONSTANTS find, fd, rg

MCCommands == {find, fd, rg}

MCChainRewrites == find :> fd @@ fd :> fd @@ rg :> rg

MCBlockable == {find, fd}

Same == [c \in MCCommands |-> c]

Plain(event, when, action) ==
    [event |-> event, pattern |-> MCCommands, unless |-> {}, when |-> when,
     action |-> action, to |-> Same]

MCRules == {
    [Plain("pre", "always", "deny") EXCEPT !.pattern = {fd, rg}, !.unless = {rg}],
    [Plain("pre", "always", "rewrite") EXCEPT !.to = fd :> rg @@ Same],
    [Plain("pre", "on-success", "rewrite") EXCEPT !.to = rg :> find @@ Same],
    Plain("pre", "always", "run"),
    Plain("post", "on-success", "notify"),
    Plain("post", "always", "redact"),
    [Plain("post", "always", "deny") EXCEPT !.pattern = {find}],
    [Plain("post", "on-failure", "rewrite") EXCEPT !.to = fd :> rg @@ Same]}

=============================================================================
