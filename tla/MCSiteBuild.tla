---------------------------- MODULE MCSiteBuild ----------------------------
(* A page, its child, two skins and two [style] blocks.                     *)
EXTENDS SiteBuild

CONSTANTS about, privacy

MCSlugOrder == <<privacy, about>>   \* about--privacy.json sorts before about.json
MCParentOf  == [s \in {privacy} |-> about]

NoPolicy   == [promote |-> {}, exempt |-> {}]
Promoted   == [promote |-> {"render"}, exempt |-> {}]
WithExempt == [promote |-> {"render"}, exempt |-> {<<"sri", "missing">>}]
Excused    == [promote |-> {}, exempt |-> {<<"render", "cms_parse">>, <<"sri", "mismatch">>}]

MCPolicies == {NoPolicy, Promoted, Excused}
OneWithExempt == {WithExempt}
=============================================================================
