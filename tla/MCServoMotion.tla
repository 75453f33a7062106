--------------------------- MODULE MCServoMotion ---------------------------
EXTENDS ServoMotion

\* Targets on both sides of the base, two of them with one digit less in an
\* angle, as the file tells numbers by their digits.
MCTargets == {<<29, 19>>, <<36, 9>>, <<34, 23>>}
MCSteps == Channels \X {StepLength, -StepLength}
MCSaved == {<<31, 23>>, <<33, 21>>}

\* The horizontal servo stays at its base; the vertical one crosses from one
\* digit to two.
MCNearTargets == {<<31, 9>>}
MCNearSteps == {<<Vertical, -StepLength>>}
MCNearSaved == {<<31, 9>>}
=============================================================================
