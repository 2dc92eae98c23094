------------------------------- MODULE MCSkills -------------------------------
(* generate-skills over the code bases of MCExtractedCode.                  *)
EXTENDS Skills, MCExtractedCode

MCSlug == [s \in MCNames |->
    CASE s = "MAIN" -> "main" [] s = "SUB" -> "sub" [] s = "OVERVIEW" -> "overview" [] OTHER -> s]

\* neither the order of the files nor the history of the writes to the store
MCSkillsView == <<MCView, skillVars>>
===============================================================================
