CONSTANTS
    Crossbow = {1}
    Stored <- MCStored
    Alerts = {1}
SPECIFICATION Spec
INVARIANT ResolvedAlertsClose
