------------------------------ MODULE MCRuleset ------------------------------
(* OsuRuleSet for TLC: one or two participants on maps of two objects. *)
EXTENDS OsuRuleSet

Rule(driver, lazer, classic, old) ==
    [driver |-> driver, lazer |-> lazer, noteLock |-> classic,
     classic |-> classic, old |-> old]

Stable == Rule("replay", FALSE, FALSE, FALSE)
Old == Rule("replay", FALSE, FALSE, TRUE)
Lazer == Rule("replay", TRUE, FALSE, FALSE)
Classic == Rule("replay", TRUE, TRUE, FALSE)
Auto == Rule("generated", FALSE, FALSE, FALSE)
LazerAuto == Rule("generated", TRUE, FALSE, FALSE)
Live == Rule("live", FALSE, FALSE, FALSE)
LazerLive == Rule("live", TRUE, FALSE, FALSE)

Stack == <<Circle(4, TRUE), Circle(5, TRUE)>>
Repeat == <<Slider(4, <<6, 8>>), Circle(9, FALSE)>>
Short == <<Slider(4, <<6>>), Circle(7, FALSE)>>
Overlap == <<Slider(4, <<5>>), Slider(5, <<6>>)>>
Spin == <<Spinner(4, 9, 1, 0), Circle(9, FALSE)>>

Mixed == {<<Stable, Auto>>, <<Lazer, Classic>>, <<Old, Lazer>>,
          <<Auto, LazerAuto>>, <<Live>>, <<LazerLive>>}

Alone == {<<Stable>>, <<Old>>, <<Lazer>>, <<Classic>>, <<LazerLive>>}

MCScenarios ==
    [map : {Stack, Short}, rules : Mixed]
    \cup [map : {Spin, Repeat, Overlap}, rules : Alone \cup {<<Auto, LazerAuto>>}]
=============================================================================
