SPECIFICATION Spec
CONSTANTS
    Layouts <- MCLayouts
    Floors <- MCFloors
    Area <- MCArea
    Stride = 2
    ZoneNames <- MCZoneNames
    None = None
    MaxDeploys = 1
INVARIANT TypeOK OneActive InsideMeansInside NotSafeNearExclusion
PROPERTY WarnedBeforeEntering
